---- MODULE Spec2Model ----
(***************************************************************************)
(* Model of the command-line parser of alfrunes/cli: App.Run,              *)
(* App.parseArgs, parseArg (cli.go), NewContext, Context.assignFlag and    *)
(* the typed lookups (context.go), and the flags' Set/Validate/setEnv      *)
(* (flag.go).                                                              *)
(*                                                                         *)
(* A Go string is a sequence of one-character strings, so that prefixes,   *)
(* splitting at "=", splitting into characters, lower-casing and number    *)
(* parsing are computed as the code computes them.  A *Flag or *Command    *)
(* pointer is the identifier of the declaration it points to; a *Context   *)
(* is an index into ctxs, and 0 is the nil context.                        *)
(***************************************************************************)
EXTENDS Integers, Sequences, FiniteSets, TLC

VARIABLES
    app,             \* the receiver of App.Run (NilApp = nil)
    args,            \* argv handed to App.Run
    env,             \* the process environment: variable name -> string
    pc,              \* position in App.Run / App.parseArgs
    i,               \* index of the next token of the range loop of parseArgs
    ctxs,            \* every Context built so far, in order of creation
    ctx,             \* parseArgs' ctx: the innermost context (0 = nil)
    lastFlag,        \* parseArgs' lastFlag (NilFlag = nil)
    value,           \* the value slot of every Flag instance
    appFlags,        \* App.Flags
    appCommands,     \* App.Commands
    cmdFlags,        \* Command.Flags, per command
    cmdSubCommands,  \* Command.SubCommands, per command
    err,             \* the error parseArgs (or NewContext) returned
    result,          \* what App.Run returned, printed and dispatched
    calls,           \* how many more times the program will call App.Run
    earlier,         \* what the earlier calls of App.Run left, oldest first
    hp,              \* the HelpPrinter: buf, cursor, margins, widths
    wrote,           \* the calls of HelpPrinter.Write so far: the last input,
                     \* what it returned and how much buf grew, every input
    call             \* the call of HelpPrinter.Write that is in its loop:
                     \* p, N, NumExtraChars, and what its passes did so far

vars == <<app, args, env, pc, i, ctxs, ctx, lastFlag, value, appFlags,
          appCommands, cmdFlags, cmdSubCommands, err, result, calls, earlier,
          hp, wrote, call>>

-----------------------------------------------------------------------------
(* Bounds *)

\* longest argv
MaxArgs == 4

\* most calls of App.Run on one App
MaxRuns == 2

\* longest text handed to HelpPrinter.Write, the buffer length from which
\* no further text is written, and the widest margin the program sets
MaxText == 4
MaxBuf == 4
MaxMargin == 3

\* passes of Write's loop in a row that leave N unchanged, after which the
\* loop is followed no further
MaxIdle == 3

-----------------------------------------------------------------------------
(* Go strings and the library functions the parser calls *)

Empty == <<>>

\* strings.HasPrefix
HasPrefix(s, p) == Len(s) >= Len(p) /\ SubSeq(s, 1, Len(p)) = p

\* strings.TrimPrefix
TrimPrefix(s, p) == IF HasPrefix(s, p) THEN SubSeq(s, Len(p) + 1, Len(s)) ELSE s

\* strings.SplitN(s, "=", 2): cut at the first "=", if there is one
SplitN(s) ==
    LET eqs == {k \in 1..Len(s) : s[k] = "="}
    IN  IF eqs = {} THEN <<s>>
        ELSE LET k == CHOOSE x \in eqs : \A y \in eqs : x <= y
             IN  <<SubSeq(s, 1, k - 1), SubSeq(s, k + 1, Len(s))>>

\* strings.Split(s, ""): one string per character
Split(s) == [k \in 1..Len(s) |-> <<s[k]>>]

LowerOf(c) ==
    CASE c = "T" -> "t" [] c = "R" -> "r" [] c = "U" -> "u" [] c = "E" -> "e"
      [] c = "F" -> "f" [] c = "A" -> "a" [] c = "L" -> "l" [] c = "S" -> "s"
      [] OTHER -> c

\* strings.ToLower
ToLower(s) == [k \in 1..Len(s) |-> LowerOf(s[k])]

Digits == {"0", "1", "2", "3", "4", "5", "6", "7", "8", "9"}

DigitVal(c) ==
    CASE c = "0" -> 0 [] c = "1" -> 1 [] c = "2" -> 2 [] c = "3" -> 3
      [] c = "4" -> 4 [] c = "5" -> 5 [] c = "6" -> 6 [] c = "7" -> 7
      [] c = "8" -> 8 [] c = "9" -> 9

RECURSIVE DecVal(_)
DecVal(s) == IF s = <<>> THEN 0
             ELSE 10 * DecVal(SubSeq(s, 1, Len(s) - 1)) + DigitVal(s[Len(s)])

\* strconv.Atoi: an optional sign and at least one decimal digit; 0 and an
\* error for anything else
Atoi(s) ==
    LET signed == Len(s) > 0 /\ s[1] \in {"+", "-"}
        body   == IF signed THEN Tail(s) ELSE s
        ok     == Len(body) > 0 /\ \A k \in 1..Len(body) : body[k] \in Digits
    IN  [ok |-> ok,
         v  |-> IF ~ok THEN 0
                ELSE IF signed /\ s[1] = "-" THEN 0 - DecVal(body)
                ELSE DecVal(body)]

\* strconv.ParseFloat(s, 64) on decimal literals with at most one digit
\* after the point: an optional sign, at least one digit, and optionally a
\* point and one digit.  A float64 is represented by its number of tenths
\* (1.5 is 15), which is exact for these literals.  Anything else is taken
\* as not a number: 0 and an error.
ParseFloat(s) ==
    LET Number(neg, points, whole, frac) ==
            IF /\ points <= 1
               /\ Len(whole) > 0 /\ Len(frac) <= 1
               /\ \A k \in 1..Len(whole) : whole[k] \in Digits
               /\ \A k \in 1..Len(frac) : frac[k] \in Digits
            THEN [ok |-> TRUE,
                  v  |-> IF neg THEN 0 - (10 * DecVal(whole) + DecVal(frac))
                         ELSE 10 * DecVal(whole) + DecVal(frac)]
            ELSE [ok |-> FALSE, v |-> 0]
        AtPoint(body, pts) ==
            Number(Len(s) > 0 /\ s[1] = "-", Cardinality(pts),
                   IF pts = {} THEN body
                   ELSE SubSeq(body, 1, (CHOOSE k \in pts : TRUE) - 1),
                   IF pts = {} THEN <<>>
                   ELSE SubSeq(body, (CHOOSE k \in pts : TRUE) + 1, Len(body)))
        Unsigned(body) == AtPoint(body, {k \in 1..Len(body) : body[k] = "."})
    IN  Unsigned(IF Len(s) > 0 /\ s[1] \in {"+", "-"} THEN Tail(s) ELSE s)

\* Go maps, as functions on their key set
EmptyMap == <<>>
MapPut(m, k, v) == [x \in (DOMAIN m) \cup {k} |-> IF x = k THEN v ELSE m[x]]
MapDel(m, k) == [x \in (DOMAIN m) \ {k} |-> m[x]]
HasKey(m, k) == k \in DOMAIN m

-----------------------------------------------------------------------------
(* Errors *)

\* an error value: what went wrong, the string its message names, and for
\* the two messages that carry a list, the list (nonBools, in order) or the
\* set of names (the keys of requiredFlags, which Go ranges over in no
\* fixed order)
NoErr == [kind |-> "nil", arg |-> <<>>, list |-> <<>>, names |-> {}]
Error(kind, arg) == [kind |-> kind, arg |-> arg, list |-> <<>>, names |-> {}]
ErrorList(kind, arg, list) ==
    [kind |-> kind, arg |-> arg, list |-> list, names |-> {}]
ErrorNames(kind, names) ==
    [kind |-> kind, arg |-> <<>>, list |-> <<>>, names |-> names]

-----------------------------------------------------------------------------
(* The declaration tree: the App of ExampleApp, extended with two Bool     *)
(* flags, an Int flag, a second command without flags, and a command with  *)
(* two required flags and a subcommand that inherits them.  Two more flags *)
(* are declared and listed by no scope of this tree: a Bool flag bound to  *)
(* the environment variable, and a flag without a name; and so are an Int  *)
(* flag and a Float flag with a range, bound to the environment variable   *)

tExample     == <<"e", "x", "a", "m", "p", "l", "e">>
tExampleBoi  == <<"e", "x", "a", "m", "p", "l", "e", "-", "b", "o", "i">>
tExampleCmd  == <<"e", "x", "a", "m", "p", "l", "e", "-", "c", "m", "d">>
tInclude     == <<"i", "n", "c", "l", "u", "d", "e">>
tMust        == <<"m", "u", "s", "t">>
tDefault     == <<"d", "e", "f", "a", "u", "l", "t", " ", "v", "a", "l", "u", "e">>
tEnvVar      == "INIT_FROM_ENVIRONMENT_VAR_IF_DEFINED"
tAll         == <<"a", "l", "l">>
tBrief       == <<"b", "r", "i", "e", "f">>
tCount       == <<"c", "o", "u", "n", "t">>
tOut         == <<"o", "u", "t">>
tNum         == <<"n", "u", "m">>
tHelp        == <<"h", "e", "l", "p">>
tRun         == <<"r", "u", "n">>
tBuild       == <<"b", "u", "i", "l", "d">>
tDeep        == <<"d", "e", "e", "p">>
tVerbose     == <<"v", "e", "r", "b", "o", "s", "e">>
tLevel       == <<"l", "e", "v", "e", "l">>
tName        == <<"n", "a", "m", "e">>
tSTR         == <<"S", "T", "R">>
tUse         == <<"u", "s", "e">>
tGroup       == <<"g", "r", "o", "u", "p">>
tExactWidth  == <<"e", "x", "a", "c", "t", "-", "w", "i", "d", "t", "h">>
tVeryLongOption ==
    <<"v", "e", "r", "y", "-", "l", "o", "n", "g", "-", "o", "p", "t", "i",
      "o", "n">>
\* os.Args[0]
tProg        == <<"p", "r", "o", "g">>
tRatio       == <<"r", "a", "t", "i", "o">>

NilFlag == "nil"
NilCmd  == "nil"
NilApp  == "nil"
NoChar  == ""
NoRange == <<0, 0>>

\* HelpOption, the implicit --help/-h flag
HelpOption == "help"

\* HelpCommand, the implicit help command
HelpCommand == "help"

\* The Flag declarations, by identifier
Flags ==
    [ boi   |-> [Name |-> tExampleBoi, Char |-> "e", Type |-> "String",
                 Required |-> FALSE, Default |-> tDefault,
                 Choices |-> <<tMust, tInclude, tDefault>>, Range |-> NoRange,
                 EnvVar |-> tEnvVar,
                 MetaVar |-> tSTR, Usage |-> tUse],
      all   |-> [Name |-> tAll, Char |-> "a", Type |-> "Bool",
                 Required |-> FALSE, Default |-> FALSE,
                 Choices |-> <<>>, Range |-> NoRange, EnvVar |-> "",
                 MetaVar |-> Empty, Usage |-> tUse],
      brief |-> [Name |-> tBrief, Char |-> "b", Type |-> "Bool",
                 Required |-> FALSE, Default |-> FALSE,
                 Choices |-> <<>>, Range |-> NoRange, EnvVar |-> "",
                 MetaVar |-> Empty, Usage |-> tUse],
      count |-> [Name |-> tCount, Char |-> "c", Type |-> "Int",
                 Required |-> FALSE, Default |-> 0,
                 Choices |-> <<>>, Range |-> NoRange, EnvVar |-> "",
                 MetaVar |-> Empty, Usage |-> tUse],
      out   |-> [Name |-> tOut, Char |-> "o", Type |-> "String",
                 Required |-> TRUE, Default |-> Empty,
                 Choices |-> <<>>, Range |-> NoRange, EnvVar |-> "",
                 MetaVar |-> Empty, Usage |-> tUse],
      num   |-> [Name |-> tNum, Char |-> "n", Type |-> "Int",
                 Required |-> TRUE, Default |-> 0,
                 Choices |-> <<>>, Range |-> NoRange, EnvVar |-> "",
                 MetaVar |-> Empty, Usage |-> tUse],
      help  |-> [Name |-> tHelp, Char |-> "h", Type |-> "Bool",
                 Required |-> FALSE, Default |-> FALSE,
                 Choices |-> <<>>, Range |-> NoRange, EnvVar |-> "",
                 MetaVar |-> Empty, Usage |-> tUse],
      \* a Bool flag that takes its default from the environment
      verbose |-> [Name |-> tVerbose, Char |-> "v", Type |-> "Bool",
                 Required |-> FALSE, Default |-> FALSE,
                 Choices |-> <<>>, Range |-> NoRange, EnvVar |-> tEnvVar,
                 MetaVar |-> Empty, Usage |-> tUse],
      \* an Int flag and a Float flag with the range [2, 6] (20 to 60
      \* tenths), bound to the environment
      level |-> [Name |-> tLevel, Char |-> "l", Type |-> "Int",
                 Required |-> FALSE, Default |-> 3,
                 Choices |-> <<>>, Range |-> <<2, 6>>, EnvVar |-> tEnvVar,
                 MetaVar |-> Empty, Usage |-> tUse],
      ratio |-> [Name |-> tRatio, Char |-> "r", Type |-> "Float",
                 Required |-> FALSE, Default |-> 30,
                 Choices |-> <<>>, Range |-> <<20, 60>>, EnvVar |-> tEnvVar,
                 MetaVar |-> Empty, Usage |-> tUse],
      \* a second flag instance with the long name of out
      shadow |-> [Name |-> tOut, Char |-> NoChar, Type |-> "Int",
                 Required |-> FALSE, Default |-> 7,
                 Choices |-> <<>>, Range |-> NoRange, EnvVar |-> "",
                 MetaVar |-> Empty, Usage |-> tUse],
      \* an optional String flag with a metavar, name/-n
      name  |-> [Name |-> tName, Char |-> "n", Type |-> "String",
                 Required |-> FALSE, Default |-> Empty,
                 Choices |-> <<>>, Range |-> NoRange, EnvVar |-> "",
                 MetaVar |-> tSTR, Usage |-> tUse],
      \* an Int flag without metavar whose name is 11 characters long, and
      \* one whose name is 16 characters long
      exact |-> [Name |-> tExactWidth, Char |-> "w", Type |-> "Int",
                 Required |-> FALSE, Default |-> 0,
                 Choices |-> <<>>, Range |-> NoRange, EnvVar |-> "",
                 MetaVar |-> Empty, Usage |-> tUse],
      wide  |-> [Name |-> tVeryLongOption, Char |-> "y", Type |-> "Int",
                 Required |-> TRUE, Default |-> 0,
                 Choices |-> <<>>, Range |-> NoRange, EnvVar |-> "",
                 MetaVar |-> Empty, Usage |-> tUse],
      \* a flag declared without a name
      noname |-> [Name |-> Empty, Char |-> NoChar, Type |-> "String",
                 Required |-> FALSE, Default |-> Empty,
                 Choices |-> <<>>, Range |-> NoRange, EnvVar |-> "",
                 MetaVar |-> Empty, Usage |-> tUse] ]

FlagIds == DOMAIN Flags

\* The Command declarations, by identifier (Flags and SubCommands are the
\* lists as declared; NewContext appends to them)
Commands ==
    [ examplecmd |-> [Name |-> tExampleCmd, Action |-> TRUE,
                      InheritParentFlags |-> FALSE,
                      Flags |-> <<>>, SubCommands |-> <<>>,
                      Usage |-> tUse, Description |-> Empty],
      run        |-> [Name |-> tRun, Action |-> TRUE,
                      InheritParentFlags |-> FALSE,
                      Flags |-> <<>>, SubCommands |-> <<>>,
                      Usage |-> tUse, Description |-> Empty],
      build      |-> [Name |-> tBuild, Action |-> TRUE,
                      InheritParentFlags |-> FALSE,
                      Flags |-> <<"out", "num">>, SubCommands |-> <<"deep">>,
                      Usage |-> tUse, Description |-> Empty],
      deep       |-> [Name |-> tDeep, Action |-> TRUE,
                      InheritParentFlags |-> TRUE,
                      Flags |-> <<>>, SubCommands |-> <<>>,
                      Usage |-> tUse, Description |-> Empty],
      \* a command without action that has a subcommand
      group      |-> [Name |-> tGroup, Action |-> FALSE,
                      InheritParentFlags |-> FALSE,
                      Flags |-> <<>>, SubCommands |-> <<"deep">>,
                      Usage |-> tUse, Description |-> tUse],
      help       |-> [Name |-> tHelp, Action |-> TRUE,
                      InheritParentFlags |-> FALSE,
                      Flags |-> <<>>, SubCommands |-> <<>>,
                      Usage |-> tUse, Description |-> Empty] ]

CmdIds == DOMAIN Commands

\* The App of ExampleApp: no Action, implicit help flag and command enabled
App ==
    [Name |-> tExample, Action |-> FALSE,
     Flags |-> <<"boi", "all", "brief", "count">>,
     Commands |-> <<"examplecmd", "run", "build">>,
     DisableHelpOption |-> FALSE, DisableHelpCommand |-> FALSE,
     Description |-> tUse]

\* The Apps, by identifier: ExampleApp, an App with an Action, and an App
\* with an Action and without the implicit help flag and command
Apps ==
    [ app  |-> App,
      tool |-> [App EXCEPT !.Action = TRUE],
      bare |-> [App EXCEPT !.Action = TRUE, !.DisableHelpOption = TRUE,
                           !.DisableHelpCommand = TRUE] ]

-----------------------------------------------------------------------------
(* Flag: Validate, Set, setEnv *)

FlagName(f) == Flags[f].Name
FlagType(f) == Flags[f].Type

InChoices(f, v) == \E k \in 1..Len(Flags[f].Choices) : Flags[f].Choices[k] = v

\* Validate: the name is present, and the current value meets the declared
\* constraint (choice set for String, lower end of the range for Int)
Validate(val, f) ==
    IF FlagName(f) = Empty THEN Error("MissingName", Empty)
    ELSE IF FlagType(f) = "String"
         THEN IF Len(Flags[f].Choices) # 0 /\ ~InChoices(f, val[f])
              THEN Error("ConstraintViolation", FlagName(f))
              ELSE NoErr
    ELSE IF FlagType(f) = "Int"
         THEN IF Flags[f].Range[1] # Flags[f].Range[2]
                 /\ val[f] < Flags[f].Range[1]
              THEN Error("ConstraintViolation", FlagName(f))
              ELSE NoErr
    ELSE IF FlagType(f) = "Float"
         THEN IF Flags[f].Range[1] # Flags[f].Range[2]
                 /\ (val[f] < Flags[f].Range[1] \/ val[f] > Flags[f].Range[2])
              THEN Error("ConstraintViolation", FlagName(f))
              ELSE NoErr
    ELSE NoErr

\* Set: store the token in the flag's type, then validate.  The String and
\* Int forms write the value slot before they know that the token is good.
Set(val, f, tok) ==
    IF FlagType(f) = "String"
    THEN LET v1 == [val EXCEPT ![f] = tok]
         IN  [value |-> v1, err |-> Validate(v1, f)]
    ELSE IF FlagType(f) = "Int"
    THEN LET n  == Atoi(tok)
             v1 == [val EXCEPT ![f] = n.v]
         IN  IF ~n.ok
             THEN [value |-> v1, err |-> Error("TypeMismatch", tok)]
             ELSE [value |-> v1, err |-> Validate(v1, f)]
    ELSE IF FlagType(f) = "Float"
    THEN LET Store(v1, ok) ==
                 IF ~ok
                 THEN [value |-> v1, err |-> Error("TypeMismatch", tok)]
                 ELSE [value |-> v1, err |-> Validate(v1, f)]
             Stored(n) == Store([val EXCEPT ![f] = n.v], n.ok)
         IN  Stored(ParseFloat(tok))
    ELSE \* Bool
         LET lowerCase == ToLower(tok)
         IN  IF lowerCase = <<"t", "r", "u", "e">>
             THEN [value |-> [val EXCEPT ![f] = TRUE], err |-> NoErr]
             ELSE IF lowerCase = <<"f", "a", "l", "s", "e">>
             THEN [value |-> [val EXCEPT ![f] = FALSE], err |-> NoErr]
             ELSE [value |-> val, err |-> Error("TypeMismatch", tok)]

\* os.Getenv
Getenv(name) == IF name \in DOMAIN env THEN env[name] ELSE Empty

\* setEnv with the bug of not testing the variable for emptiness
setEnv_AppliesEmpty(val, f) ==
    IF Flags[f].EnvVar = "" THEN val
    ELSE LET envVar == Getenv(Flags[f].EnvVar)
         IN  IF FlagType(f) = "String" THEN [val EXCEPT ![f] = envVar]
             ELSE IF FlagType(f) = "Int"
                  THEN IF Atoi(envVar).ok
                       THEN [val EXCEPT ![f] = Atoi(envVar).v] ELSE val
             ELSE IF FlagType(f) = "Float"
                  THEN LET Taken(n) ==
                               IF n.ok THEN [val EXCEPT ![f] = n.v] ELSE val
                       IN  Taken(ParseFloat(envVar))
             ELSE [val EXCEPT ![f] = ~val[f]]

\* setEnv: take the default from the environment variable, if one is
\* configured and it is not empty
setEnv(val, f) ==
    IF Flags[f].EnvVar = "" THEN val
    ELSE LET envVar == Getenv(Flags[f].EnvVar)
         IN  IF envVar = Empty THEN val
             ELSE IF FlagType(f) = "String" THEN [val EXCEPT ![f] = envVar]
             ELSE IF FlagType(f) = "Int"
                  THEN IF Atoi(envVar).ok
                       THEN [val EXCEPT ![f] = Atoi(envVar).v] ELSE val
             ELSE IF FlagType(f) = "Float"
                  THEN LET Taken(n) ==
                               IF n.ok THEN [val EXCEPT ![f] = n.v] ELSE val
                       IN  Taken(ParseFloat(envVar))
             ELSE [val EXCEPT ![f] = ~val[f]]

-----------------------------------------------------------------------------
(* Context *)

\* MakeContext with the bug of linking every scope to no parent
MakeContext_NoParent(parent, cmd) ==
    [command |-> cmd, parent |-> 0, positionalArgs |-> <<>>,
     scopeFlags |-> EmptyMap, parsedFlags |-> EmptyMap,
     requiredFlags |-> EmptyMap, scopeCommands |-> EmptyMap]

\* a fresh Context: its four maps made, no positionals
MakeContext(parent, cmd) ==
    [command |-> cmd, parent |-> parent, positionalArgs |-> <<>>,
     scopeFlags |-> EmptyMap, parsedFlags |-> EmptyMap,
     requiredFlags |-> EmptyMap, scopeCommands |-> EmptyMap]

\* the loop of NewContext over the commands of the scope
RECURSIVE RegisterCommands(_, _, _)
RegisterCommands(m, cmds, k) ==
    IF k > Len(cmds) THEN m
    ELSE RegisterCommands(MapPut(m, Commands[cmds[k]].Name, cmds[k]), cmds, k + 1)

\* RegisterFlags with the bug of leaving out the single-character key
RECURSIVE RegisterFlags_NoChar(_, _, _, _)
RegisterFlags_NoChar(c, val, flags, k) ==
    IF k > Len(flags) THEN [c |-> c, value |-> val, err |-> NoErr]
    ELSE IF flags[k] = NilFlag
    THEN [c |-> c, value |-> val, err |-> Error("panic", Empty)]
    ELSE LET flag == flags[k]
             e    == Validate(val, flag)
             c1   == [c EXCEPT !.scopeFlags = MapPut(@, FlagName(flag), flag)]
             c2   == IF Flags[flag].Required
                     THEN [c1 EXCEPT !.requiredFlags =
                                         MapPut(@, FlagName(flag), flag)]
                     ELSE c1
         IN  IF e # NoErr THEN [c |-> c, value |-> val, err |-> e]
             ELSE RegisterFlags_NoChar(c2, setEnv(val, flag), flags, k + 1)

\* the loop of NewContext over the flags of the scope: validate, register
\* under the name and the character, note a required flag, bind the
\* environment default; stops at the first flag that fails to validate, and
\* at a nil entry
RECURSIVE RegisterFlags(_, _, _, _)
RegisterFlags(c, val, flags, k) ==
    IF k > Len(flags) THEN [c |-> c, value |-> val, err |-> NoErr]
    ELSE IF flags[k] = NilFlag
    THEN \* flag.Validate() on the nil entry, before the test for nil
         [c |-> c, value |-> val, err |-> Error("panic", Empty)]
    ELSE LET flag == flags[k]
             e    == Validate(val, flag)
             c1   == [c EXCEPT !.scopeFlags = MapPut(@, FlagName(flag), flag)]
             c2   == IF Flags[flag].Required
                     THEN [c1 EXCEPT !.requiredFlags =
                                         MapPut(@, FlagName(flag), flag)]
                     ELSE c1
             c3   == IF Flags[flag].Char # NoChar
                     THEN [c2 EXCEPT !.scopeFlags =
                                         MapPut(@, <<Flags[flag].Char>>, flag)]
                     ELSE c2
         IN  IF e # NoErr THEN [c |-> c, value |-> val, err |-> e]
             ELSE RegisterFlags(c3, setEnv(val, flag), flags, k + 1)

\* inheritedFlags with the bug of ignoring InheritParentFlags
inheritedFlags_Always(cs, parent, cmd) ==
    IF cmd # NilCmd THEN cs[parent].scopeFlags ELSE EmptyMap

\* NewContext: the alias table a command scope starts from, the parent's if
\* the command inherits its parent's flags
inheritedFlags(cs, parent, cmd) ==
    IF cmd # NilCmd /\ Commands[cmd].InheritParentFlags
    THEN cs[parent].scopeFlags ELSE EmptyMap

\* NewContext(app, parent, cmd), on the program state s; parent is a context
\* index (0 for the root scope), cmd a command or NilCmd.  The result is the
\* state with the new context appended and made current, or with err set and
\* ctx nil.  The appends to the declaration lists stay in either case.
NewContext(s, parent, cmd) ==
    LET helpCmd  == ~Apps[s.app].DisableHelpCommand
        helpOpt  == ~Apps[s.app].DisableHelpOption
                    /\ ~(cmd # NilCmd /\ Commands[cmd].Name = tHelp)
        \* the command list of the scope, the help command appended
        cmds0    == IF cmd = NilCmd THEN s.appCommands ELSE s.cmdSubCommands[cmd]
        cmds1    == IF helpCmd /\ Len(cmds0) > 0
                    THEN Append(cmds0, HelpCommand) ELSE cmds0
        \* the flag list of the scope, the help option appended
        flags0   == IF cmd = NilCmd THEN s.appFlags ELSE s.cmdFlags[cmd]
        flags1   == IF helpOpt THEN Append(flags0, HelpOption) ELSE flags0
        c0       == MakeContext(parent, cmd)
        c1       == [c0 EXCEPT !.scopeFlags = inheritedFlags(s.ctxs, parent, cmd)]
        c2       == [c1 EXCEPT !.scopeCommands = RegisterCommands(EmptyMap, cmds1, 1)]
        c3       == IF helpOpt
                    THEN [c2 EXCEPT !.scopeFlags = MapPut(@, tHelp, HelpOption)]
                    ELSE c2
        \* what follows the loop over the flags, with the lists as they
        \* are then
        AfterFlags(r, cmds, flags) ==
            LET s1 == [s EXCEPT
                         !.appCommands = IF cmd = NilCmd THEN cmds ELSE @,
                         !.appFlags = IF cmd = NilCmd THEN flags ELSE @,
                         !.cmdSubCommands = IF cmd = NilCmd THEN @
                                            ELSE [@ EXCEPT ![cmd] = cmds],
                         !.cmdFlags = IF cmd = NilCmd THEN @
                                      ELSE [@ EXCEPT ![cmd] = flags],
                         !.value = r.value]
            IN  IF r.err # NoErr
                THEN [s1 EXCEPT !.ctx = 0, !.err = r.err]
                ELSE [s1 EXCEPT !.ctxs = Append(@, r.c),
                                !.ctx = Len(s.ctxs) + 1]
    IN  IF s.app = NilApp
        THEN [s EXCEPT !.ctx = 0, !.err = Error("MissingApp", Empty)]
        ELSE AfterFlags(RegisterFlags(c3, s.value, flags1, 1), cmds1, flags1)

\* Lookup with the bug of answering isSet = true when the walk runs out
RECURSIVE Lookup_EndsSet(_, _, _, _, _, _)
Lookup_EndsSet(cs, val, c, name, type, ret) ==
    IF c = 0 THEN <<ret, TRUE>>
    ELSE IF HasKey(cs[c].scopeFlags, name)
         THEN LET flag == cs[c].scopeFlags[name]
              IN  IF FlagType(flag) # type THEN <<ret, FALSE>>
                  ELSE IF HasKey(cs[c].parsedFlags, name)
                       THEN <<val[flag], TRUE>>
                       ELSE Lookup_EndsSet(cs, val, cs[c].parent, name, type,
                                           val[flag])
         ELSE Lookup_EndsSet(cs, val, cs[c].parent, name, type, ret)

\* the walk of Context.String, Int and Bool from context c outwards: the
\* value of every scope that knows the name overwrites ret, and the walk
\* stops at the first of them in which the name was parsed, or whose flag
\* has another type than the one asked for
RECURSIVE Lookup(_, _, _, _, _, _)
Lookup(cs, val, c, name, type, ret) ==
    IF c = 0 THEN <<ret, FALSE>>
    ELSE IF HasKey(cs[c].scopeFlags, name)
         THEN LET flag == cs[c].scopeFlags[name]
              IN  IF FlagType(flag) # type THEN <<ret, FALSE>>
                  ELSE IF HasKey(cs[c].parsedFlags, name)
                       THEN <<val[flag], TRUE>>
                       ELSE Lookup(cs, val, cs[c].parent, name, type, val[flag])
         ELSE Lookup(cs, val, cs[c].parent, name, type, ret)

\* Context.String
ContextString(cs, val, c, name) == Lookup(cs, val, c, name, "String", Empty)
\* Context.Int
ContextInt(cs, val, c, name) == Lookup(cs, val, c, name, "Int", 0)
\* Context.Bool
ContextBool(cs, val, c, name) == Lookup(cs, val, c, name, "Bool", FALSE)

\* Context.Float
ContextFloat(cs, val, c, name) == Lookup(cs, val, c, name, "Float", 0)

\* a nil map: it has no key, and reading it gives what reading an empty map
\* gives
NilMap == <<>>

\* ContextFree with the bug of releasing only the context itself
ContextFree_OnlySelf(cs, p) ==
    IF p = 0 THEN cs
    ELSE [cs EXCEPT ![p].parsedFlags = NilMap, ![p].positionalArgs = <<>>,
                    ![p].requiredFlags = NilMap, ![p].scopeCommands = NilMap,
                    ![p].scopeFlags = NilMap]

\* Context.Free, from context p outwards: the five tables of every context
\* of the chain become nil
RECURSIVE ContextFree(_, _)
ContextFree(cs, p) ==
    IF p = 0 THEN cs
    ELSE ContextFree([cs EXCEPT ![p].parsedFlags = NilMap,
                                ![p].positionalArgs = <<>>,
                                ![p].requiredFlags = NilMap,
                                ![p].scopeCommands = NilMap,
                                ![p].scopeFlags = NilMap],
                     cs[p].parent)

-----------------------------------------------------------------------------
(* parseArg and Context.assignFlag *)

\* what parseArg returns besides the error: a *Flag, a *Command, a string,
\* or nil
RetNil == [kind |-> "nil", id |-> "nil", str |-> <<>>]
RetFlag(f) == [kind |-> "flag", id |-> f, str |-> <<>>]
RetCommand(c) == [kind |-> "command", id |-> c, str |-> <<>>]
RetString(a) == [kind |-> "string", id |-> "nil", str |-> a]

\* parseArg, branch `--name` / `--name=value`, on context record c
parseLong(c, val, arg) ==
    LET flagName   == TrimPrefix(arg, <<"-", "-">>)
        flagKeyVal == SplitN(flagName)
        key        == flagKeyVal[1]
    IN  IF ~HasKey(c.scopeFlags, key)
        THEN [c |-> c, value |-> val, ret |-> RetNil,
              err |-> Error("UnrecognizedFlag", arg)]
        ELSE IF HasKey(c.parsedFlags, key)
        THEN [c |-> c, value |-> val, ret |-> RetNil,
              err |-> Error("DuplicateFlag", key)]
        ELSE LET flagAddr == c.scopeFlags[key]
                 c1 == [c EXCEPT !.requiredFlags = MapDel(@, FlagName(flagAddr))]
             IN  IF Len(flagKeyVal) = 2
                 THEN LET KeyVal(r) ==
                              IF r.err # NoErr
                              THEN [c |-> c, value |-> r.value, ret |-> RetNil,
                                    err |-> r.err]
                              ELSE [c |-> [c1 EXCEPT !.parsedFlags =
                                               MapPut(@, key, flagAddr)],
                                    value |-> r.value, ret |-> RetNil,
                                    err |-> NoErr]
                      IN  KeyVal(Set(val, flagAddr, flagKeyVal[2]))
                 ELSE [c |-> c1, value |-> val, ret |-> RetFlag(flagAddr),
                       err |-> NoErr]

\* nonFinal with the bug of starting at the second character
nonFinal_SkipsFirst(rawFlags) == SubSeq(rawFlags, 2, Len(rawFlags) - 1)

\* parseArg: rawFlags[:len(rawFlags)-1], the characters of a short token
\* that are not its last
nonFinal(rawFlags) == SubSeq(rawFlags, 1, Len(rawFlags) - 1)

\* parseArg, the loop over the characters rawFlags of a short token that are
\* not its last
RECURSIVE compoundLoop(_, _, _, _, _)
compoundLoop(c, val, rawFlags, k, nonBools) ==
    IF k > Len(rawFlags)
    THEN [c |-> c, value |-> val, nonBools |-> nonBools, err |-> NoErr]
    ELSE LET char == rawFlags[k] IN
         IF ~HasKey(c.scopeFlags, char)
         THEN [c |-> c, value |-> val, nonBools |-> nonBools,
               err |-> Error("UnrecognizedOption", char)]
         ELSE LET flag == c.scopeFlags[char]
                  val1 == IF FlagType(flag) = "Bool"
                          THEN [val EXCEPT ![flag] = TRUE] ELSE val
                  nb1  == IF FlagType(flag) = "Bool"
                          THEN nonBools ELSE Append(nonBools, char)
                  c1   == [c EXCEPT !.requiredFlags = MapDel(@, FlagName(flag))]
              IN  IF HasKey(c1.parsedFlags, FlagName(flag))
                  THEN [c |-> c1, value |-> val1, nonBools |-> nb1,
                        err |-> Error("DuplicateFlag", FlagName(flag))]
                  ELSE compoundLoop(
                           [c1 EXCEPT !.parsedFlags = MapPut(@, FlagName(flag), flag)],
                           val1, rawFlags, k + 1, nb1)

\* parseArg, branch `-x` / `-xyz`, on context record c
parseShort(c, val, arg) ==
    LET charFlags == TrimPrefix(arg, <<"-">>)
        rawFlags  == Split(charFlags)
        char      == rawFlags[Len(rawFlags)]
        \* what follows the loop over the characters that are not the last
        Last(l)   ==
        IF l.err # NoErr
        THEN [c |-> l.c, value |-> l.value, ret |-> RetNil, err |-> l.err]
        ELSE IF Len(l.nonBools) > 0
        THEN [c |-> l.c, value |-> l.value, ret |-> RetNil,
              err |-> ErrorList("CompoundTypeError", arg, l.nonBools)]
        ELSE IF HasKey(l.c.scopeFlags, char)
        THEN LET flag == l.c.scopeFlags[char] IN
             IF HasKey(l.c.parsedFlags, FlagName(flag))
             THEN [c |-> l.c, value |-> l.value, ret |-> RetNil,
                   err |-> Error("DuplicateFlag", FlagName(flag))]
             ELSE LET c1 == [l.c EXCEPT !.requiredFlags =
                                            MapDel(@, FlagName(flag))]
                  IN  IF FlagType(flag) = "Bool"
                      THEN [c |-> [c1 EXCEPT !.parsedFlags =
                                       MapPut(@, FlagName(flag), flag)],
                            value |-> [l.value EXCEPT ![flag] = TRUE],
                            ret |-> RetFlag(flag), err |-> NoErr]
                      ELSE [c |-> c1, value |-> l.value,
                            ret |-> RetFlag(flag), err |-> NoErr]
        ELSE [c |-> l.c, value |-> l.value, ret |-> RetNil,
              err |-> Error("UnrecognizedOption", char)]
    IN  Last(compoundLoop(c, val, nonFinal(rawFlags), 1, <<>>))

\* parseArg(arg, ctx), on context record c: classify one token
parseArg(c, val, arg) ==
    IF HasPrefix(arg, <<"-", "-">>)
    THEN IF arg = <<"-", "-">>
         THEN [c |-> c, value |-> val, ret |-> RetString(arg), err |-> NoErr]
         ELSE parseLong(c, val, arg)
    ELSE IF HasPrefix(arg, <<"-">>)
    THEN IF arg = <<"-">>
         THEN [c |-> c, value |-> val, ret |-> RetString(arg), err |-> NoErr]
         ELSE parseShort(c, val, arg)
    ELSE IF HasKey(c.scopeCommands, arg)
    THEN [c |-> c, value |-> val, ret |-> RetCommand(c.scopeCommands[arg]),
          err |-> NoErr]
    ELSE [c |-> c, value |-> val, ret |-> RetString(arg), err |-> NoErr]

\* Context.assignFlag(arg, flag), on context record c: try arg as the value
\* of the pending flag
assignFlag(c, val, arg, flag) ==
    LET argAsFlag == IF Len(arg) = 2 THEN TrimPrefix(arg, <<"-">>)
                     ELSE TrimPrefix(arg, <<"-", "-">>)
        checked   == FlagType(flag) # "Bool" /\ FlagType(flag) # "String"
        \* what follows `err := flag.Set(arg)`
        WasSet(r) ==
            IF r.err # NoErr
            THEN IF FlagType(flag) = "Bool"
                 THEN [c |-> c,
                       value |-> Set(r.value, flag, <<"t", "r", "u", "e">>).value,
                       set |-> FALSE, err |-> NoErr]
                 ELSE [c |-> c, value |-> r.value, set |-> FALSE, err |-> r.err]
            ELSE [c |-> [c EXCEPT !.parsedFlags = MapPut(@, FlagName(flag), flag)],
                  value |-> r.value, set |-> TRUE, err |-> NoErr]
    IN  IF checked /\ HasKey(c.scopeFlags, argAsFlag)
        THEN [c |-> c, value |-> val, set |-> FALSE,
              err |-> Error("ExpectedValueFoundFlag", arg)]
        ELSE IF checked /\ HasKey(c.scopeCommands, arg)
        THEN [c |-> c, value |-> val, set |-> FALSE,
              err |-> Error("ExpectedValueFoundCommand", arg)]
        ELSE WasSet(Set(val, flag, arg))

-----------------------------------------------------------------------------
(* App.parseArgs *)

\* the program state as one value, for the operators that compute a step
State ==
    [app |-> app, ctxs |-> ctxs, ctx |-> ctx, lastFlag |-> lastFlag, value |-> value,
     appFlags |-> appFlags, appCommands |-> appCommands,
     cmdFlags |-> cmdFlags, cmdSubCommands |-> cmdSubCommands,
     err |-> err, returned |-> FALSE]

\* AppendPositional with the bug of putting the new positional first
AppendPositional_Prepends(c, p) == [c EXCEPT !.positionalArgs = <<p>> \o @]

\* parseArgs: a token that is neither flag nor command is one more positional
AppendPositional(c, p) == [c EXCEPT !.positionalArgs = Append(@, p)]

\* AppendRest with the bug of appending args[i+1:], the tokens after `--`
AppendRest_SkipsDashDash(c, as, idx) ==
    [c EXCEPT !.positionalArgs = @ \o SubSeq(as, idx + 1, Len(as))]

\* parseArgs: at `--`, args[i:] are positionals
AppendRest(c, as, idx) ==
    [c EXCEPT !.positionalArgs = @ \o SubSeq(as, idx, Len(as))]

\* parseArgs, the part of the loop body that follows the attempt to assign
\* the pending flag: classify as[idx] in scope s.ctx and act on the result
Classify(s, as, idx) ==
    LET \* what follows `parsedArg, err := parseArg(arg, ctx)`
        Switch(r) ==
            LET s1 == [s EXCEPT !.ctxs[s.ctx] = r.c, !.value = r.value]
                \* what follows `ctx, err = NewContext(app, ctx, cmd)`
                Entered(n) ==
                    IF n.err # NoErr THEN [n EXCEPT !.returned = TRUE] ELSE n
            IN  IF r.err # NoErr
                THEN [s1 EXCEPT !.err = r.err, !.returned = TRUE]
                ELSE IF r.ret.kind = "flag"
                THEN IF FlagType(r.ret.id) = "Bool"
                     THEN [s1 EXCEPT !.lastFlag = r.ret.id,
                                     !.value[r.ret.id] = TRUE,
                                     !.ctxs[s.ctx].parsedFlags =
                                         MapPut(@, FlagName(r.ret.id), r.ret.id)]
                     ELSE [s1 EXCEPT !.lastFlag = r.ret.id]
                ELSE IF r.ret.kind = "command"
                THEN Entered(NewContext(s1, s1.ctx, r.ret.id))
                ELSE IF r.ret.kind = "string"
                THEN IF r.ret.str = <<"-", "-">>
                     THEN [s1 EXCEPT !.ctxs[s.ctx] = AppendRest(@, as, idx),
                                     !.returned = TRUE]
                     ELSE [s1 EXCEPT !.ctxs[s.ctx] =
                                         AppendPositional(@, r.ret.str)]
                ELSE s1
    IN  Switch(parseArg(s.ctxs[s.ctx], s.value, as[idx]))

\* parseArgs, one pass of the loop `for i, arg := range args`
LoopBody(s, as, idx) ==
    LET \* what follows `wasSet, err := ctx.assignFlag(arg, lastFlag)`
        Assigned(a) ==
            LET s1 == [s EXCEPT !.ctxs[s.ctx] = a.c, !.value = a.value]
            IN  IF a.err # NoErr
                THEN [s1 EXCEPT !.err = a.err, !.returned = TRUE]
                ELSE IF a.set THEN [s1 EXCEPT !.lastFlag = NilFlag]
                ELSE Classify([s1 EXCEPT !.lastFlag = NilFlag], as, idx)
    IN  IF s.lastFlag # NilFlag
        THEN Assigned(assignFlag(s.ctxs[s.ctx], s.value, as[idx], s.lastFlag))
        ELSE Classify(s, as, idx)

\* AfterLoop with the bug of leaving the Int case out of the switch
AfterLoop_OnlyString(s) ==
    IF s.lastFlag # NilFlag /\ FlagType(s.lastFlag) \in {"String"}
    THEN [s EXCEPT !.err = Error("MissingValue", FlagName(s.lastFlag)),
                   !.returned = TRUE]
    ELSE [s EXCEPT !.returned = TRUE]

\* parseArgs, after the loop: a pending String or Int flag has no value
AfterLoop(s) ==
    IF s.lastFlag # NilFlag /\ FlagType(s.lastFlag) \in {"String", "Int", "Float"}
    THEN [s EXCEPT !.err = Error("MissingValue", FlagName(s.lastFlag)),
                   !.returned = TRUE]
    ELSE [s EXCEPT !.returned = TRUE]

-----------------------------------------------------------------------------
(* HelpPrinter *)

defaultWidth == 80
maxColumnWidth == 35
NewLine == "\n"

\* int(columnFraction * float64(width)), columnFraction = 0.3
columnOf(width) == (3 * width) \div 10

\* NewHelpPrinter(ctx, out), for a terminal of the given width (0 if out is
\* no terminal or its size is unknown); out is what has been written to it,
\* printed (no field of the Go struct) which of Context.PrintUsage and
\* Context.PrintHelp has used the printer
NewHelpPrinter(c, termWidth) ==
    LET width == IF termWidth < 10 THEN defaultWidth ELSE termWidth
    IN  [ctx |-> c, out |-> <<>>, printed |-> "none",
         buf |-> <<>>, cursor |-> 0, width |-> width,
         columnWidth |-> IF columnOf(width) > maxColumnWidth
                         THEN maxColumnWidth ELSE columnOf(width),
         LeftMargin |-> 0, RightMargin |-> width]

\* n spaces, what fmt.Fprintf(buf, "%*s", n, "") writes
Spaces(n) == [k \in 1..n |-> " "]

\* bytes.Index(s, sep) and bytes.LastIndex(s, sep) for a separator of one
\* byte, counted from 0; -1 if it is not there
Index(s, c) ==
    IF \E k \in 1..Len(s) : s[k] = c
    THEN (CHOOSE k \in 1..Len(s) : s[k] = c /\ \A m \in 1..(k - 1) : s[m] # c) - 1
    ELSE -1
LastIndex(s, c) ==
    IF \E k \in 1..Len(s) : s[k] = c
    THEN (CHOOSE k \in 1..Len(s) :
              s[k] = c /\ \A m \in (k + 1)..Len(s) : s[m] # c) - 1
    ELSE -1

\* the loop `for N < len(p) && p[N] == ' '` of Write: N after it
RECURSIVE SkipSpaces(_, _)
SkipSpaces(p, N) ==
    IF N < Len(p) /\ p[N + 1] = " " THEN SkipSpaces(p, N + 1) ELSE N

\* the loop `for N < len(p)` of HelpPrinter.Write, from the state h of the
\* printer with N bytes of p consumed and NumExtraChars bytes added; the
\* result is the printer and the count that Write returns
RECURSIVE WriteLoop(_, _, _, _)
WriteLoop(h, p, N, NumExtraChars) ==
    IF N >= Len(p) THEN [hp |-> h, n |-> N + NumExtraChars]
    ELSE IF h.cursor < h.LeftMargin
    THEN \* indent, and drop the spaces that p goes on with
         WriteLoop([h EXCEPT !.buf = @ \o Spaces(h.LeftMargin - h.cursor),
                             !.cursor = h.LeftMargin],
                   p, SkipSpaces(p, N),
                   NumExtraChars + (h.LeftMargin - h.cursor))
    ELSE IF h.RightMargin - h.cursor <= Len(p) - N
            /\ h.RightMargin - h.cursor <= 0
    THEN \* the line is full
         WriteLoop([h EXCEPT !.buf = Append(@, NewLine), !.cursor = 0],
                   p, N, NumExtraChars + 1)
    ELSE LET pp        == SubSeq(p, N + 1, Len(p))
             lineSpace == IF h.RightMargin - h.cursor > Len(pp)
                          THEN Len(pp) ELSE h.RightMargin - h.cursor
             window    == SubSeq(pp, 1, lineSpace)
             nl        == Index(window, NewLine)
             sp        == LastIndex(window, " ")
             next      == IF Index(pp, " ") < 0 THEN Len(pp)
                          ELSE Index(pp, " ")
             \* hp.buf.Write(pp[:k]), the cursor moved on or reset
             Put(k, reset) ==
                 WriteLoop([h EXCEPT !.buf = @ \o SubSeq(pp, 1, k),
                                     !.cursor = IF reset THEN 0 ELSE @ + k],
                           p, N + k, NumExtraChars)
         IN  IF nl >= 0 THEN Put(nl + 1, TRUE)
             ELSE IF sp >= 0 THEN Put(sp + 1, FALSE)
             ELSE IF lineSpace >= next THEN Put(Len(pp), FALSE)
             ELSE IF next > h.RightMargin - h.LeftMargin
             THEN Put(lineSpace, FALSE)
             ELSE WriteLoop([h EXCEPT !.buf = Append(@, NewLine),
                                      !.cursor = 0],
                            p, N, NumExtraChars + 1)

\* HelpPrinter.Write(p): margins that leave no room are reset first
Write(h, p) ==
    WriteLoop(IF h.RightMargin <= h.LeftMargin
              THEN [h EXCEPT !.LeftMargin = 0, !.RightMargin = defaultWidth]
              ELSE h,
              p, 0, 0)

\* bufWrite with the bug of leaving the last byte out while reporting it
bufWrite_DropsLastByte(h, b) ==
    [hp |-> [h EXCEPT !.buf = @ \o SubSeq(b, 1, Len(b) - 1)], n |-> Len(b)]

\* hp.buf.Write(b): the bytes are appended, their number is returned
bufWrite(h, b) == [hp |-> [h EXCEPT !.buf = @ \o b], n |-> Len(b)]

\* one pass of the loop `for N < len(p)` of HelpPrinter.Write, entered with
\* N < len(p): the printer, N and NumExtraChars after it, and the branch it
\* took: "indent" (Fprintf of the padding and the trimming loop), "full"
\* (Fprintln, no room on the line), "defer" (Fprintln, the word goes to the
\* next line), "put" (buf.Write of bytes of p)
WritePass(h, p, N, NumExtraChars) ==
    IF h.cursor < h.LeftMargin
    THEN [hp |-> [h EXCEPT !.buf = @ \o Spaces(h.LeftMargin - h.cursor),
                           !.cursor = h.LeftMargin],
          N |-> SkipSpaces(p, N),
          NumExtraChars |-> NumExtraChars + (h.LeftMargin - h.cursor),
          kind |-> "indent"]
    ELSE IF h.RightMargin - h.cursor <= Len(p) - N
            /\ h.RightMargin - h.cursor <= 0
    THEN [hp |-> [h EXCEPT !.buf = Append(@, NewLine), !.cursor = 0],
          N |-> N, NumExtraChars |-> NumExtraChars + 1, kind |-> "full"]
    ELSE LET pp        == SubSeq(p, N + 1, Len(p))
             lineSpace == IF h.RightMargin - h.cursor > Len(pp)
                          THEN Len(pp) ELSE h.RightMargin - h.cursor
             window    == SubSeq(pp, 1, lineSpace)
             nl        == Index(window, NewLine)
             sp        == LastIndex(window, " ")
             next      == IF Index(pp, " ") < 0 THEN Len(pp)
                          ELSE Index(pp, " ")
             \* n, err = hp.buf.Write(pp[:k]), the cursor moved on by n or
             \* reset, N += n
             Put(k, reset) ==
                 LET Written(w) ==
                         [hp |-> [w.hp EXCEPT !.cursor = IF reset THEN 0
                                                        ELSE @ + w.n],
                          N |-> N + w.n, NumExtraChars |-> NumExtraChars,
                          kind |-> "put"]
                 IN  Written(bufWrite(h, SubSeq(pp, 1, k)))
         IN  IF nl >= 0 THEN Put(nl + 1, TRUE)
             ELSE IF sp >= 0 THEN Put(sp + 1, FALSE)
             ELSE IF lineSpace >= next THEN Put(Len(pp), FALSE)
             ELSE IF next > h.RightMargin - h.LeftMargin
             THEN Put(lineSpace, FALSE)
             ELSE [hp |-> [h EXCEPT !.buf = Append(@, NewLine), !.cursor = 0],
                   N |-> N, NumExtraChars |-> NumExtraChars + 1,
                   kind |-> "defer"]

\* F(e), with e evaluated before F is applied: the statements of a function
\* one after the other
Do(e, F(_)) == CHOOSE r \in {F(v) : v \in {e}} : TRUE

\* fmt.Fprint(hp, text) and its kin: one call of Write with the formatted
\* text; the count is dropped by most callers
Fprint(h, text) == Write(h, text).hp

\* getOptionalAndRequired with the bug of returning the two lists swapped
getOptionalAndRequired_Swapped(flags) ==
    [optional |-> SelectSeq(flags, LAMBDA f : Flags[f].Required),
     required |-> SelectSeq(flags, LAMBDA f : ~Flags[f].Required)]

\* getOptionalAndRequired(flags): the two sublists, in order
getOptionalAndRequired(flags) ==
    [optional |-> SelectSeq(flags, LAMBDA f : ~Flags[f].Required),
     required |-> SelectSeq(flags, LAMBDA f : Flags[f].Required)]

\* initPrint, the walk from context p outwards: the flag lists of the
\* scopes and the names of the commands, up to the first command that does
\* not inherit its parent's flags
RECURSIVE initWalk(_, _, _, _)
initWalk(s, p, flags, execStr) ==
    IF p = 0 THEN [flags |-> flags, execStr |-> execStr]
    ELSE IF s.ctxs[p].command = NilCmd
    THEN initWalk(s, s.ctxs[p].parent, flags \o s.appFlags, execStr)
    ELSE LET cmd == s.ctxs[p].command
             fl  == flags \o s.cmdFlags[cmd]
             ex  == Commands[cmd].Name \o <<" ">> \o execStr
         IN  IF ~Commands[cmd].InheritParentFlags
             THEN [flags |-> fl, execStr |-> ex]
             ELSE initWalk(s, s.ctxs[p].parent, fl, ex)

\* initPrint, for the printer of context c: the flags to show and the
\* command line so far
initPrint(s, c) ==
    IF s.ctxs[c].command = NilCmd
    THEN [flags |-> s.appFlags, execStr |-> tProg]
    ELSE LET w == initWalk(s, c, <<>>, <<>>)
         IN  [flags |-> w.flags, execStr |-> tProg \o <<" ">> \o w.execStr]

\* usageWord with the bug of never using the character of the flag
usageWord_LongName(f) ==
    LET word  == <<"-", "-">> \o Flags[f].Name
        word2 == IF Flags[f].MetaVar = Empty
                 THEN IF Flags[f].Type # "Bool"
                      THEN word \o <<" ", "v", "a", "l", "u", "e">> ELSE word
                 ELSE word \o <<" ">> \o Flags[f].MetaVar
    IN  IF Flags[f].Required THEN <<" ">> \o word2
        ELSE <<" ", "[">> \o word2 \o <<"]">>

\* writeUsage: the word of a flag
usageWord(f) ==
    LET word  == IF Flags[f].Char # NoChar THEN <<"-", Flags[f].Char>>
                 ELSE <<"-", "-">> \o Flags[f].Name
        word2 == IF Flags[f].MetaVar = Empty
                 THEN IF Flags[f].Type # "Bool"
                      THEN word \o <<" ", "v", "a", "l", "u", "e">> ELSE word
                 ELSE word \o <<" ">> \o Flags[f].MetaVar
    IN  IF Flags[f].Required THEN <<" ">> \o word2
        ELSE <<" ", "[">> \o word2 \o <<"]">>

\* writeUsage: the loop over the flags, the first k rounds of it
RECURSIVE writeUsageFlags(_, _, _)
writeUsageFlags(h, flags, k) ==
    IF k = 0 THEN h
    ELSE LET word == usageWord(flags[k])
             Round(h1) == Fprint(h1, IF h1.cursor + Len(word) > h1.RightMargin
                                     THEN <<NewLine>> \o word ELSE word)
         IN  Do(writeUsageFlags(h, flags, k - 1), Round)

\* writeUsage: cmdString with the names of the commands added, each
\* followed by a comma
RECURSIVE joinNames(_, _, _)
joinNames(cmdString, cmds, k) ==
    IF k > Len(cmds) THEN cmdString
    ELSE joinNames(cmdString \o Commands[cmds[k]].Name \o <<",">>, cmds, k + 1)

\* writeUsage: the summary of the commands of the printer's scope
commandSummary(s, c) ==
    LET cmd  == s.ctxs[c].command
        cmds == IF cmd = NilCmd THEN s.appCommands ELSE s.cmdSubCommands[cmd]
        none == IF cmd = NilCmd THEN ~Apps[s.app].Action
                ELSE ~Commands[cmd].Action
        open == IF ~none THEN <<" ", "[">>
                ELSE IF cmd = NilCmd THEN <<"}">> ELSE <<" ", "{">>
        shut == IF none THEN <<"}">> ELSE <<"]">>
        list == joinNames(open, cmds, 1)
        cmdString == IF Len(cmds) > 0
                     THEN SubSeq(list, 1, Len(list) - 1) \o shut
                     ELSE <<" ", "[">>
    IN  IF Len(cmdString) <= 2 THEN <<>> ELSE cmdString

\* writeUsage(execStr, required, optional) of the printer h of context c
writeUsage(h, s, c, execStr, required, optional) ==
    LET Summary(h2) == Fprint(h2, commandSummary(s, c) \o <<NewLine>>)
        Words(first) ==
            Do(writeUsageFlags(IF first.n < h.width
                               THEN [first.hp EXCEPT !.LeftMargin = first.n]
                               ELSE first.hp,
                               required \o optional,
                               Len(required \o optional)),
               Summary)
    IN  Do(Write(h, <<"U", "s", "a", "g", "e", ":", " ">> \o execStr), Words)

\* hp.buf.WriteTo(hp.out)
WriteTo(h) == [h EXCEPT !.out = @ \o h.buf, !.buf = <<>>]

\* HelpPrinter.PrintUsage of a new printer of context c
PrintUsageOf(s, c) ==
    LET ip == initPrint(s, c)
        fs == getOptionalAndRequired(ip.flags)
    IN  WriteTo(writeUsage(NewHelpPrinter(c, 0), s, c, ip.execStr,
                           fs.required, fs.optional))

\* writeCommandSection: the loop over the commands, the first k rounds of it
RECURSIVE writeCommands(_, _, _)
writeCommands(h, cmds, k) ==
    IF k = 0 THEN h
    ELSE LET Usage(h1) == Fprint([h1 EXCEPT !.LeftMargin = h.columnWidth],
                                 Commands[cmds[k]].Usage \o <<NewLine>>)
             Round(h0) == Do(Fprint([h0 EXCEPT !.LeftMargin = 2],
                                    Commands[cmds[k]].Name),
                             Usage)
         IN  Do(writeCommands(h, cmds, k - 1), Round)

\* writeCommandSection(commands)
writeCommandSection(h, cmds) ==
    writeCommands(Fprint([h EXCEPT !.LeftMargin = 0],
                         <<NewLine, "C", "o", "m", "m", "a", "n", "d", "s", ":",
                           NewLine>>),
                  cmds, Len(cmds))

\* writeFlagSection: the left cell of a flag, "--%s%s %s  " of its name,
\* its character and its metavar
flagCell(f) ==
    LET char    == IF Flags[f].Char = NoChar THEN <<>>
                   ELSE <<"/", "-", Flags[f].Char>>
        metaVar == IF Flags[f].MetaVar = Empty /\ Flags[f].Type # "Bool"
                   THEN <<"v", "a", "l", "u", "e">> ELSE Flags[f].MetaVar
    IN  <<"-", "-">> \o Flags[f].Name \o char \o <<" ">> \o metaVar
        \o <<" ", " ">>

\* flagEntry with the bug of never breaking the line after the left cell
flagEntry_NeverBreaks(h, f) ==
    LET cell == Write([h EXCEPT !.LeftMargin = 2], flagCell(f))
        h1   == [cell.hp EXCEPT !.LeftMargin = h.columnWidth]
    IN  Fprint(h1, Flags[f].Usage \o <<NewLine>>)

\* writeFlagSection: the body of the loop, for flag f
flagEntry(h, f) ==
    LET cell == Write([h EXCEPT !.LeftMargin = 2], flagCell(f))
        h1   == [cell.hp EXCEPT !.LeftMargin = h.columnWidth]
        h2   == IF cell.n > h1.LeftMargin THEN Fprint(h1, <<NewLine>>) ELSE h1
    IN  Fprint(h2, Flags[f].Usage \o <<NewLine>>)

\* writeFlagSection: the loop over the flags, the first k rounds of it
RECURSIVE writeFlags(_, _, _)
writeFlags(h, flags, k) ==
    IF k = 0 THEN h
    ELSE LET Round(h1) == flagEntry(h1, flags[k])
         IN  Do(writeFlags(h, flags, k - 1), Round)

\* writeFlagSection(section, flags)
writeFlagSection(h, section, flags) ==
    writeFlags(Fprint([h EXCEPT !.LeftMargin = 0],
                      <<NewLine>> \o section \o <<":", NewLine>>),
               flags, Len(flags))

tDescription ==
    <<"D", "e", "s", "c", "r", "i", "p", "t", "i", "o", "n", ":">>
tRequiredFlags ==
    <<"R", "e", "q", "u", "i", "r", "e", "d", " ", "f", "l", "a", "g", "s">>
tOptionalFlags ==
    <<"O", "p", "t", "i", "o", "n", "a", "l", " ", "f", "l", "a", "g", "s">>

\* PrintHelp: the description and the commands of the printer's scope
writeScope(h, s, c) ==
    LET cmd == s.ctxs[c].command
    IN  IF cmd # NilCmd
        THEN LET h1 == IF Commands[cmd].Description # Empty
                       THEN Fprint(
                                [Fprint([h EXCEPT !.LeftMargin = 0],
                                        tDescription \o <<NewLine>>)
                                     EXCEPT !.LeftMargin = 2],
                                <<NewLine>> \o Commands[cmd].Description
                                \o <<NewLine, NewLine>>)
                       ELSE h
             IN  IF Len(s.cmdSubCommands[cmd]) > 0
                 THEN writeCommandSection(h1, s.cmdSubCommands[cmd]) ELSE h1
        ELSE LET h1 == IF Apps[s.app].Description # Empty
                       THEN Fprint(
                                [Fprint([h EXCEPT !.LeftMargin = 0],
                                        <<NewLine>> \o tDescription
                                        \o <<NewLine>>)
                                     EXCEPT !.LeftMargin = 2],
                                Apps[s.app].Description \o <<NewLine>>)
                       ELSE h
             IN  IF Len(s.appCommands) > 0
                 THEN writeCommandSection(h1, s.appCommands) ELSE h1

\* HelpPrinter.PrintHelp of a new printer of context c
PrintHelpOf(s, c) ==
    LET ip == initPrint(s, c)
        fs == getOptionalAndRequired(ip.flags)
        Optional(h3) == WriteTo(writeFlagSection(h3, tOptionalFlags, fs.optional))
        Required(h2) == Do(writeFlagSection(h2, tRequiredFlags, fs.required),
                           Optional)
        Scope(h1)    == Do(writeScope(h1, s, c), Required)
    IN  Do(writeUsage(NewHelpPrinter(c, 0), s, c, ip.execStr,
                      fs.required, fs.optional),
           Scope)

\* no call of Write is in its loop; idle, out, ins and gone are no variables
\* of the Go function: idle counts the passes since the last one that moved
\* N, out is what the call has appended to buf, ins marks the bytes of out
\* that Fprintf and Fprintln wrote (indentation, inserted newlines), gone
\* holds the positions of p the trimming loop stepped over, each with the
\* length of out at that moment
NoCall == [active |-> FALSE, p |-> <<>>, N |-> 0, NumExtraChars |-> 0,
           idle |-> 0, out |-> <<>>, ins |-> <<>>, gone |-> {}]

\* no call of Write yet
NoWrite == [p |-> <<>>, n |-> 0, grown |-> 0, all |-> <<>>]

-----------------------------------------------------------------------------
(* App.Run *)

NoResult == [returned |-> FALSE, ret |-> NoErr, printed |-> "none",
             action |-> "none", ctx |-> 0]

\* missingFlags with the bug of naming only one of the missing flags
missingFlags_OnlyOne(c) ==
    IF DOMAIN c.requiredFlags = {} THEN {}
    ELSE {CHOOSE n \in DOMAIN c.requiredFlags : TRUE}

\* Run: the names listed in the "missing argument(s)" error, the keys of the
\* selected context's requiredFlags
missingFlags(c) == DOMAIN c.requiredFlags

\* RunResult with the bug of checking the required flags before the help
\* flag
RunResult_RequiredFirst(s) ==
    LET c == IF s.ctx = 0 THEN 1 ELSE s.ctx
        hjalp == ContextBool(s.ctxs, s.value, c, tHelp)[1]
        cmd == s.ctxs[c].command
        hasAction == IF cmd = NilCmd THEN Apps[s.app].Action
                     ELSE Commands[cmd].Action
    IN  IF s.err # NoErr
        THEN [returned |-> TRUE, ret |-> s.err, printed |-> "usage",
              action |-> "none", ctx |-> c]
        ELSE IF Cardinality(DOMAIN s.ctxs[c].requiredFlags) > 0
        THEN [returned |-> TRUE,
              ret |-> ErrorNames("RequiredFlagsMissing",
                                 missingFlags(s.ctxs[c])),
              printed |-> "usage", action |-> "none", ctx |-> c]
        ELSE IF hjalp
        THEN [returned |-> TRUE, ret |-> NoErr, printed |-> "help",
              action |-> "none", ctx |-> c]
        ELSE IF ~hasAction
        THEN [returned |-> TRUE, ret |-> NoErr, printed |-> "help",
              action |-> "none", ctx |-> c]
        ELSE [returned |-> TRUE, ret |-> NoErr, printed |-> "none",
              action |-> IF cmd = NilCmd THEN "app" ELSE cmd, ctx |-> c]

\* RunResult with the bug of returning the error of parseArgs only when
\* parseArgs returned no context
RunResult_ErrorOnlyWithoutContext(s) ==
    LET c == IF s.ctx = 0 THEN 1 ELSE s.ctx
        hjalp == ContextBool(s.ctxs, s.value, c, tHelp)[1]
        cmd == s.ctxs[c].command
        hasAction == IF cmd = NilCmd THEN Apps[s.app].Action
                     ELSE Commands[cmd].Action
    IN  IF s.err # NoErr /\ s.ctx = 0
        THEN [returned |-> TRUE, ret |-> s.err, printed |-> "usage",
              action |-> "none", ctx |-> c]
        ELSE IF hjalp
        THEN [returned |-> TRUE, ret |-> NoErr, printed |-> "help",
              action |-> "none", ctx |-> c]
        ELSE IF Cardinality(DOMAIN s.ctxs[c].requiredFlags) > 0
        THEN [returned |-> TRUE,
              ret |-> ErrorNames("RequiredFlagsMissing",
                                 missingFlags(s.ctxs[c])),
              printed |-> "usage", action |-> "none", ctx |-> c]
        ELSE IF ~hasAction
        THEN [returned |-> TRUE, ret |-> NoErr, printed |-> "help",
              action |-> "none", ctx |-> c]
        ELSE [returned |-> TRUE, ret |-> NoErr, printed |-> "none",
              action |-> IF cmd = NilCmd THEN "app" ELSE cmd, ctx |-> c]

\* Run, from the return of parseArgs on: report the error, or show the help,
\* or report the missing required flags, or dispatch to the action
RunResult(s) ==
    LET c == IF s.ctx = 0 THEN 1 ELSE s.ctx
        hjalp == ContextBool(s.ctxs, s.value, c, tHelp)[1]
        cmd == s.ctxs[c].command
        hasAction == IF cmd = NilCmd THEN Apps[s.app].Action
                     ELSE Commands[cmd].Action
    IN  IF s.err # NoErr
        THEN [returned |-> TRUE, ret |-> s.err, printed |-> "usage",
              action |-> "none", ctx |-> c]
        ELSE IF hjalp
        THEN [returned |-> TRUE, ret |-> NoErr, printed |-> "help",
              action |-> "none", ctx |-> c]
        ELSE IF Cardinality(DOMAIN s.ctxs[c].requiredFlags) > 0
        THEN [returned |-> TRUE,
              ret |-> ErrorNames("RequiredFlagsMissing",
                                 missingFlags(s.ctxs[c])),
              printed |-> "usage", action |-> "none", ctx |-> c]
        ELSE IF ~hasAction
        THEN [returned |-> TRUE, ret |-> NoErr, printed |-> "help",
              action |-> "none", ctx |-> c]
        ELSE [returned |-> TRUE, ret |-> NoErr, printed |-> "none",
              action |-> IF cmd = NilCmd THEN "app" ELSE cmd, ctx |-> c]

-----------------------------------------------------------------------------
(* The state machine *)

\* the program state becomes s
Becomes(s) ==
    /\ ctxs' = s.ctxs
    /\ ctx' = s.ctx
    /\ lastFlag' = s.lastFlag
    /\ value' = s.value
    /\ appFlags' = s.appFlags
    /\ appCommands' = s.appCommands
    /\ cmdFlags' = s.cmdFlags
    /\ cmdSubCommands' = s.cmdSubCommands
    /\ err' = s.err

\* the program calls App.Run once more, with the same argv, when that argv
\* is empty; the specification SpecTwice does so for every argv
Again(as) == IF as = <<>> THEN MaxRuns - 1 ELSE 0

\* every argv of at most MaxArgs tokens of the set T
Argvs(T) == UNION {[1..n -> T] : n \in 0..MaxArgs}

\* the state before App.Run is called, for an argv over the tokens T and an
\* environment of E
InitWith(T, E) ==
    /\ app = "app"
    /\ args \in Argvs(T)
    /\ env \in E
    /\ pc = "Run"
    /\ i = 1
    /\ ctxs = <<>>
    /\ ctx = 0
    /\ lastFlag = NilFlag
    /\ value = [f \in FlagIds |-> Flags[f].Default]
    /\ appFlags = App.Flags
    /\ appCommands = App.Commands
    /\ cmdFlags = [c \in CmdIds |-> Commands[c].Flags]
    /\ cmdSubCommands = [c \in CmdIds |-> Commands[c].SubCommands]
    /\ err = NoErr
    /\ result = NoResult
    /\ calls = Again(args)
    /\ earlier = <<>>
    /\ hp = NewHelpPrinter(0, 0)
    /\ wrote = NoWrite
    /\ call = NoCall

\* Run: build the root context; a failure is returned at once, and a nil
\* dereference ends the process
RunNewContext ==
    /\ pc = "Run"
    /\ LET s == NewContext(State, 0, NilCmd)
       IN  /\ Becomes(s)
           /\ IF s.err.kind = "panic"
              THEN /\ pc' = "panic"
                   /\ result' = result
              ELSE IF s.err # NoErr
              THEN /\ pc' = "done"
                   /\ result' = [returned |-> TRUE, ret |-> s.err,
                                 printed |-> "none", action |-> "none",
                                 ctx |-> 0]
              ELSE /\ pc' = "parseArgs"
                   /\ result' = result
    /\ UNCHANGED <<hp, wrote, call, calls, earlier, app, args, env, i>>

\* parseArgs: one pass of the loop, on token args[i]
ParseToken ==
    /\ pc = "parseArgs"
    /\ i <= Len(args)
    /\ LET Pass(s) ==
               /\ Becomes(s)
               /\ pc' = IF s.err.kind = "panic" THEN "panic"
                        ELSE IF s.returned THEN "parsed" ELSE "parseArgs"
       IN  Pass(LoopBody(State, args, i))
    /\ i' = i + 1
    /\ UNCHANGED <<hp, wrote, call, calls, earlier, app, args, env, result>>

\* parseArgs: the end of the input
ParseEnd ==
    /\ pc = "parseArgs"
    /\ i > Len(args)
    /\ Becomes(AfterLoop(State))
    /\ pc' = "parsed"
    /\ UNCHANGED <<hp, wrote, call, calls, earlier, app, args, env, i, result>>

\* Run: act on what parseArgs returned
RunReturn ==
    /\ pc = "parsed"
    /\ result' = RunResult(State)
    /\ pc' = "done"
    /\ UNCHANGED <<hp, wrote, call, calls, earlier, app, args, env, i, ctxs, ctx, lastFlag, value, appFlags,
                   appCommands, cmdFlags, cmdSubCommands, err>>

\* Context.Free, called on context k once Run has returned
Free ==
    /\ pc \in {"done", "freed"}
    /\ \E k \in 1..Len(ctxs) : ctxs' = ContextFree(ctxs, k)
    /\ pc' = "freed"
    /\ UNCHANGED <<hp, wrote, call, calls, earlier, app, args, env, i, ctx, lastFlag, value, appFlags,
                   appCommands, cmdFlags, cmdSubCommands, err, result>>

\* what a call of App.Run leaves behind: what it returned, its contexts,
\* the value slots and the declaration lists
Left ==
    [app |-> app, result |-> result, err |-> err, ctxs |-> ctxs, value |-> value,
     appFlags |-> appFlags, appCommands |-> appCommands,
     cmdFlags |-> cmdFlags, cmdSubCommands |-> cmdSubCommands]

\* the program calls App.Run again, on the same App with the same argv: the
\* locals of Run start afresh, the App, its commands and its flags are as
\* the call before left them (the contexts and the printers of the call
\* before are out of reach, freed or not)
RunAgain ==
    /\ pc = "done"
    /\ calls > 0
    /\ calls' = calls - 1
    /\ earlier' = Append(earlier, Left)
    /\ pc' = "Run"
    /\ i' = 1
    /\ ctxs' = <<>>
    /\ ctx' = 0
    /\ lastFlag' = NilFlag
    /\ err' = NoErr
    /\ result' = NoResult
    /\ hp' = NewHelpPrinter(0, 0)
    /\ UNCHANGED <<app, args, env, value, appFlags, appCommands, cmdFlags,
                   cmdSubCommands, wrote, call>>

Next ==
    RunNewContext \/ ParseToken \/ ParseEnd \/ RunReturn \/ Free \/ RunAgain

\* Context.PrintUsage, called on context k once Run has returned
PrintUsage ==
    /\ pc = "done"
    /\ \E k \in 1..Len(ctxs) :
           hp' = [PrintUsageOf(State, k) EXCEPT !.printed = "usage"]
    /\ UNCHANGED <<app, args, env, pc, i, ctxs, ctx, lastFlag, value,
                   appFlags, appCommands, cmdFlags, cmdSubCommands, err,
                   result, calls, earlier, wrote, call>>

\* Context.PrintHelp, called on context k once Run has returned
PrintHelp ==
    /\ pc = "done"
    /\ \E k \in 1..Len(ctxs) :
           hp' = [PrintHelpOf(State, k) EXCEPT !.printed = "help"]
    /\ UNCHANGED <<app, args, env, pc, i, ctxs, ctx, lastFlag, value,
                   appFlags, appCommands, cmdFlags, cmdSubCommands, err,
                   result, calls, earlier, wrote, call>>

NextPrint == Next \/ PrintUsage \/ PrintHelp

\* the program sets the two margins of the printer (exported fields)
SetMargins ==
    /\ \E l \in 0..MaxMargin, r \in 0..MaxMargin :
           hp' = [hp EXCEPT !.LeftMargin = l, !.RightMargin = r]
    /\ UNCHANGED <<app, args, env, pc, i, ctxs, ctx, lastFlag, value,
                   appFlags, appCommands, cmdFlags, cmdSubCommands, err,
                   result, calls, earlier, wrote, call>>

\* the texts of at most MaxText letters, spaces and newlines
Texts == UNION {[1..n -> {"a", " ", NewLine}] : n \in 0..MaxText}

\* HelpPrinter.Write(p), for a text p of at most MaxText bytes, while the
\* buffer holds less than MaxBuf bytes
HpWrite ==
    /\ Len(hp.buf) < MaxBuf
    /\ \E p \in Texts :
           LET r == Write(hp, p)
           IN  /\ hp' = r.hp
               /\ wrote' = [p |-> p, n |-> r.n,
                            grown |-> Len(r.hp.buf) - Len(hp.buf),
                            all |-> wrote.all \o p]
    /\ UNCHANGED <<app, args, env, pc, i, ctxs, ctx, lastFlag, value,
                   appFlags, appCommands, cmdFlags, cmdSubCommands, err,
                   result, calls, earlier, call>>

\* the margins the program may set, the fields being exported and of type
\* int: the small widths, and a negative number
AnyMargins == (0 - 1)..MaxMargin

\* the program sets the two margins of the printer before its first use
SetAnyMargins ==
    /\ ~call.active
    /\ hp.buf = <<>>
    /\ \E l \in AnyMargins, r \in AnyMargins :
           hp' = [hp EXCEPT !.LeftMargin = l, !.RightMargin = r]
    /\ UNCHANGED <<app, args, env, pc, i, ctxs, ctx, lastFlag, value,
                   appFlags, appCommands, cmdFlags, cmdSubCommands, err,
                   result, calls, earlier, wrote, call>>

\* HelpPrinter.Write(p) is called, the texts of all calls being of at most
\* MaxText bytes together: what precedes the loop
WriteBegin ==
    /\ ~call.active
    /\ \E p \in {t \in Texts : Len(wrote.all) + Len(t) <= MaxText} :
           call' = [active |-> TRUE, p |-> p, N |-> 0, NumExtraChars |-> 0,
                    idle |-> 0, out |-> <<>>, ins |-> <<>>, gone |-> {}]
    /\ hp' = IF hp.RightMargin <= hp.LeftMargin
             THEN [hp EXCEPT !.LeftMargin = 0, !.RightMargin = defaultWidth]
             ELSE hp
    /\ UNCHANGED <<app, args, env, pc, i, ctxs, ctx, lastFlag, value,
                   appFlags, appCommands, cmdFlags, cmdSubCommands, err,
                   result, calls, earlier, wrote>>

\* HelpPrinter.Write: one pass of the loop, followed for as long as fewer
\* than MaxIdle passes in a row have left N where it was
HpWritePass ==
    /\ call.active
    /\ call.N < Len(call.p)
    /\ call.idle < MaxIdle
    /\ LET Passed(r) ==
               LET added == SubSeq(r.hp.buf, Len(hp.buf) + 1, Len(r.hp.buf))
                   len   == Len(call.out) + Len(added)
               IN  /\ hp' = r.hp
                   /\ call' = [call EXCEPT
                          !.N = r.N,
                          !.NumExtraChars = r.NumExtraChars,
                          !.idle = IF r.N > call.N THEN 0 ELSE @ + 1,
                          !.out = @ \o added,
                          !.ins = @ \o [k \in 1..Len(added) |->
                                            r.kind # "put"],
                          !.gone = IF r.kind = "put" THEN @
                                   ELSE @ \cup {[pos |-> k, at |-> len] :
                                                   k \in (call.N + 1)..r.N}]
       IN  Passed(WritePass(hp, call.p, call.N, call.NumExtraChars))
    /\ UNCHANGED <<app, args, env, pc, i, ctxs, ctx, lastFlag, value,
                   appFlags, appCommands, cmdFlags, cmdSubCommands, err,
                   result, calls, earlier, wrote>>

\* HelpPrinter.Write: the loop is left, `return N + NumExtraChars, err`
WriteReturn ==
    /\ call.active
    /\ call.N >= Len(call.p)
    /\ call' = [call EXCEPT !.active = FALSE]
    /\ wrote' = [p |-> call.p, n |-> call.N + call.NumExtraChars,
                 grown |-> Len(call.out), all |-> wrote.all \o call.p]
    /\ UNCHANGED <<app, args, env, pc, i, ctxs, ctx, lastFlag, value,
                   appFlags, appCommands, cmdFlags, cmdSubCommands, err,
                   result, calls, earlier, hp>>

-----------------------------------------------------------------------------
(* Tokens, and the specifications: the same program, run on every argv of  *)
(* at most MaxArgs tokens of a set of tokens                               *)

tDashDash   == <<"-", "-">>
tA          == <<"-", "a">>
tB          == <<"-", "b">>
tC          == <<"-", "c">>
tE          == <<"-", "e">>
tO          == <<"-", "o">>
tN          == <<"-", "n">>
tABE        == <<"-", "a", "b", "e">>
tAC         == <<"-", "a", "c">>
tCAB        == <<"-", "c", "a", "b">>
tCXB        == <<"-", "c", "x", "b">>
tCEB        == <<"-", "c", "e", "b">>
tCBX        == <<"-", "c", "b", "x">>
tFive       == <<"5">>
tSix        == <<"6">>
tTRUE       == <<"T", "R", "U", "E">>
tFalse      == <<"f", "a", "l", "s", "e">>
tLongAll    == <<"-", "-">> \o tAll
tLongAFalse == <<"-", "-", "a", "=">> \o tFalse
tLongCount  == <<"-", "-">> \o tCount
tLongCount5 == <<"-", "-">> \o tCount \o <<"=", "5">>
tLongC      == <<"-", "-", "c">>
tLongC6     == <<"-", "-", "c", "=", "6">>
tLongEIncl  == <<"-", "-", "e", "=">> \o tInclude
tLongHelp   == <<"-", "-">> \o tHelp
tLongNum5   == <<"-", "-">> \o tNum \o <<"=", "5">>
tLongN5     == <<"-", "-", "n", "=", "5">>
tLongOutIncl == <<"-", "-">> \o tOut \o <<"=">> \o tInclude
tLongOutEx  == <<"-", "-">> \o tOut \o <<"=">> \o tExample
tLongBoiIncl == <<"-", "-">> \o tExampleBoi \o <<"=">> \o tInclude
tV          == <<"-", "v">>

\* the environment with the variable of example-boi unset, and set
NoEnv   == [v \in {tEnvVar} |-> Empty]
MustEnv == [v \in {tEnvVar} |-> tMust]
FiveEnv == [v \in {tEnvVar} |-> tFive]

\* flags of each type with and without a value, `--`, commands, positionals
Tokens == {tDashDash, tA, tE, tInclude, tC, tFive, tRun, tExampleCmd, tExample}
Init == InitWith(Tokens, {NoEnv})
Spec == Init /\ [][Next]_vars

\* one Int flag in every form of token that names it
TokensDup == {tLongCount, tLongCount5, tC, tAC, tLongC, tLongC6, tFive, tSix}
InitDup == InitWith(TokensDup, {NoEnv})
SpecDup == InitDup /\ [][Next]_vars

\* compound short tokens and their single-character parts
TokensCompound == {tABE, tA, tB, tE, tInclude, tLongAll}
InitCompound == InitWith(TokensCompound, {NoEnv})
SpecCompound == InitCompound /\ [][Next]_vars

\* compound short tokens with a non-Bool flag before the last character
TokensNonBool == {tA, tCAB, tCXB, tCEB, tCBX, tLongCount5, tFive, tRun}
InitNonBool == InitWith(TokensNonBool, {NoEnv})
SpecNonBool == InitNonBool /\ [][Next]_vars

\* a Bool flag and what may follow it
TokensBool == {tA, tLongAll, tLongAFalse, tTRUE, tFalse, tInclude, tRun,
               tDashDash, tB}
InitBool == InitWith(TokensBool, {NoEnv})
SpecBool == InitBool /\ [][Next]_vars

\* the command with required flags, its subcommand, and the help flag
TokensRequired == {tBuild, tDeep, tO, tInclude, tN, tFive, tLongHelp, tRun,
                   tLongNum5}
InitRequired == InitWith(TokensRequired, {NoEnv})
SpecRequired == InitRequired /\ [][Next]_vars

\* root flags followed by commands, with and without the environment
\* variable of example-boi
TokensLookup == {tExample, tE, tInclude, tExampleCmd, tLongEIncl, tRun, tC,
                 tFive}
InitLookup == InitWith(TokensLookup, {NoEnv, MustEnv})
SpecLookup == InitLookup /\ [][Next]_vars

\* a flag of a command given before and after the token of the subcommand
\* that inherits it
TokensInherit == {tBuild, tDeep, tLongOutIncl, tLongOutEx, tO, tInclude,
                  tLongNum5}
InitInherit == InitWith(TokensInherit, {NoEnv})
SpecInherit == InitInherit /\ [][Next]_vars

\* the state before App.Run is called, for an argv over the tokens T, an
\* environment of E, a receiver of A, and a declaration tree in which
\* App.Flags is a list of AF, the Flags of the command run a list of RF, the
\* Flags of the command build a list of BF and the Flags of its subcommand
\* deep a list of DF
InitTree(T, E, A, AF, RF, BF, DF) ==
    /\ app \in A
    /\ args \in Argvs(T)
    /\ env \in E
    /\ pc = "Run"
    /\ i = 1
    /\ ctxs = <<>>
    /\ ctx = 0
    /\ lastFlag = NilFlag
    /\ value = [f \in FlagIds |-> Flags[f].Default]
    /\ appFlags \in AF
    /\ appCommands = App.Commands
    /\ cmdFlags \in {[c \in CmdIds |-> IF c = "run" THEN rf
                                       ELSE IF c = "build" THEN bf
                                       ELSE IF c = "deep" THEN df
                                       ELSE Commands[c].Flags] :
                         rf \in RF, bf \in BF, df \in DF}
    /\ cmdSubCommands = [c \in CmdIds |-> Commands[c].SubCommands]
    /\ err = NoErr
    /\ result = NoResult
    /\ calls = Again(args)
    /\ earlier = <<>>
    /\ hp = NewHelpPrinter(0, 0)
    /\ wrote = NoWrite
    /\ call = NoCall

\* the state before App.Run is called, for an argv over the tokens T, an
\* environment of E, a receiver of A, and a declaration tree in which
\* App.Flags is a list of AF, the Flags of the command run a list of RF and
\* the Flags of the command build a list of BF
InitDecl(T, E, A, AF, RF, BF) ==
    InitTree(T, E, A, AF, RF, BF, {Commands["deep"].Flags})

\* declarations that do and do not pass NewContext: a nil receiver, a nil
\* entry or a flag without a name in the flag list of the App or of build
TokensConfig == {tA, tBuild, tRun, tInclude}
InitConfig ==
    InitDecl(TokensConfig, {NoEnv}, {"app", NilApp},
             {App.Flags, <<"all", NilFlag>>, <<"all", "noname", "brief">>},
             {Commands["run"].Flags},
             {Commands["build"].Flags, <<"out", NilFlag>>, <<"noname", "out">>})
SpecConfig == InitConfig /\ [][Next]_vars

\* flags bound to the environment variable, listed by the App, by the App
\* and the command run, or by build and inherited by deep; the variable set
\* and unset
TokensEnv == {tRun, tBuild, tDeep, tLongBoiIncl, tV, tInclude}
InitEnv ==
    InitDecl(TokensEnv, {NoEnv, MustEnv}, {"app"},
             {App.Flags, <<"boi", "verbose">>},
             {Commands["run"].Flags, <<"verbose">>, <<"boi">>},
             {<<"verbose">>})
SpecEnv == InitEnv /\ [][Next]_vars

\* a flag of each type bound to the environment variable, listed by the
\* App or by the command run; the variable unset, set to a word, set to a
\* number
TokensBind == {tRun, tV, tInclude, tFive, tBuild}
InitBind ==
    InitDecl(TokensBind, {NoEnv, MustEnv, FiveEnv}, {"app"},
             {<<"boi", "verbose", "level", "ratio">>, <<"all", "boi">>},
             {Commands["run"].Flags, <<"level", "verbose">>},
             {Commands["build"].Flags})
SpecBind == InitBind /\ [][Next]_vars

\* an Int and a Float flag with the range [2, 6], and values below, at and
\* above the bounds, and a word
tL    == <<"-", "l">>
tR    == <<"-", "r">>
tOne  == <<"1">>
tTwo  == <<"2">>
tNine == <<"9">>
ValueTokens == {tOne, tTwo, tSix, tNine, tInclude}
TokensRange == {tL, tR} \cup ValueTokens
InitRange ==
    InitDecl(TokensRange, {NoEnv}, {"app"}, {<<"level", "ratio">>},
             {Commands["run"].Flags}, {Commands["build"].Flags})
SpecRange == InitRange /\ [][Next]_vars

\* scopes of every kind: the root, a command that inherits and one that
\* does not, the help command at the root and below build; deep with own
\* flags, one of which has the long name of a flag of build
TokensAlias == {tBuild, tDeep, tHelp, tRun}
InitAlias ==
    InitTree(TokensAlias, {NoEnv}, {"app"},
             {App.Flags, <<"boi", "verbose">>},
             {<<"level">>},
             {Commands["build"].Flags, <<"out", "boi">>},
             {Commands["deep"].Flags, <<"shadow">>, <<"shadow", "all">>})
SpecAlias == InitAlias /\ [][Next]_vars

\* App.Run called MaxRuns times on one App, for every argv, with the
\* variable of the environment unset and set
TokensTwice == {tA, tE, tInclude, tRun, tBuild, tLongHelp}
InitTwice ==
    /\ app = "app"
    /\ args \in Argvs(TokensTwice)
    /\ env \in {NoEnv, MustEnv}
    /\ pc = "Run"
    /\ i = 1
    /\ ctxs = <<>>
    /\ ctx = 0
    /\ lastFlag = NilFlag
    /\ value = [f \in FlagIds |-> Flags[f].Default]
    /\ appFlags \in {App.Flags, <<"all", "verbose">>}
    /\ appCommands = App.Commands
    /\ cmdFlags = [c \in CmdIds |-> Commands[c].Flags]
    /\ cmdSubCommands = [c \in CmdIds |-> Commands[c].SubCommands]
    /\ err = NoErr
    /\ result = NoResult
    /\ calls = MaxRuns - 1
    /\ earlier = <<>>
    /\ hp = NewHelpPrinter(0, 0)
    /\ wrote = NoWrite
    /\ call = NoCall
SpecTwice == InitTwice /\ [][Next]_vars

\* the printer alone: texts of letters, spaces and newlines written with
\* margins that the program sets once, before the first text
InitWrite ==
    /\ InitWith({}, {NoEnv})
    /\ pc = "Run"
NextWrite == (wrote = NoWrite /\ hp.buf = <<>> /\ SetMargins) \/ HpWrite
SpecWrite == InitWrite /\ [][NextWrite]_vars

\* the same printer with Write followed pass by pass, its margins any two
\* of AnyMargins
NextPasses == SetAnyMargins \/ WriteBegin \/ HpWritePass \/ WriteReturn
SpecPasses == InitWrite /\ [][NextPasses]_vars

\* the required flags of build, assigned in every token form, the long
\* form spelled with the name and with the character
TokensPending == {tBuild, tN, tFive, tLongNum5, tLongN5, tO, tInclude}
InitPending == InitWith(TokensPending, {NoEnv})
SpecPending == InitPending /\ [][Next]_vars

\* the usage of every scope printed: Apps with and without action and
\* implicit help, with and without commands, commands with and without
\* action and subcommands
TokensUsage == {tBuild, tGroup, tDeep}
InitUsage ==
    /\ app \in {"app", "tool", "bare"}
    /\ args \in Argvs(TokensUsage)
    /\ env = NoEnv
    /\ pc = "Run"
    /\ i = 1
    /\ ctxs = <<>>
    /\ ctx = 0
    /\ lastFlag = NilFlag
    /\ value = [f \in FlagIds |-> Flags[f].Default]
    /\ appFlags \in {<<"name">>, <<"boi", "wide">>, <<"exact", "all", "boi">>}
    /\ appCommands \in {<<"build">>, <<>>, <<"run", "group", "build">>}
    /\ cmdFlags = [c \in CmdIds |-> Commands[c].Flags]
    /\ cmdSubCommands = [c \in CmdIds |-> Commands[c].SubCommands]
    /\ err = NoErr
    /\ result = NoResult
    /\ calls = Again(args)
    /\ earlier = <<>>
    /\ hp = NewHelpPrinter(0, 0)
    /\ wrote = NoWrite
    /\ call = NoCall
SpecUsage == InitUsage /\ [][NextPrint]_vars

-----------------------------------------------------------------------------
(* Notions the properties share *)

\* the values of a Go map
Range(m) == {m[k] : k \in DOMAIN m}

\* parseArgs has returned
Parsed == pc \in {"parsed", "done"}

\* the root context is built, and no context has been released
Parsing == pc \in {"parseArgs", "parsed", "done"}

\* the context Run works with after parseArgs: ctx, or appCtx if ctx is nil
Selected == IF ctx = 0 THEN 1 ELSE ctx

\* the flags declared on the scope of context record c
OwnFlags(c) == IF c.command = NilCmd THEN App.Flags ELSE Commands[c.command].Flags

\* the zero value of a type
Zero(type) ==
    IF type = "String" THEN Empty
    ELSE IF type \in {"Int", "Float"} THEN 0 ELSE FALSE

\* the typed lookup of flag f's long name from context k
LookupOf(k, f) == Lookup(ctxs, value, k, FlagName(f), FlagType(f), Zero(FlagType(f)))

-----------------------------------------------------------------------------
(* C1 *)

\* no token of argv starts with `-` or is the name of a root command
NoFlagNoCommand ==
    \A k \in 1..Len(args) :
        /\ ~HasPrefix(args[k], <<"-">>)
        /\ ~HasKey(ctxs[1].scopeCommands, args[k])

\* C1: for an argv in which no token starts with `-` and no token is a
\* command name of the root scope, the parse raises no error, creates no
\* child scope, and the root positionals are the tokens read so far, in
\* input order; at the end they are exactly argv.
C1_PositionalsAreArgv ==
    (Parsing /\ NoFlagNoCommand) =>
        /\ err = NoErr
        /\ Len(ctxs) = 1 /\ ctx = 1
        /\ lastFlag = NilFlag
        /\ ctxs[1].positionalArgs =
               SubSeq(args, 1, IF pc = "parseArgs" THEN i - 1 ELSE Len(args))

\* an argv of three positionals, two of them different, has been parsed
C1_Witness ==
    /\ pc = "done" /\ NoFlagNoCommand
    /\ Len(args) >= 3 /\ args[1] # args[2]
    /\ ctxs[1].positionalArgs = args

-----------------------------------------------------------------------------
(* C2 *)

\* the index of the first `--` of argv, 0 if there is none
FirstDashDash ==
    LET ks == {k \in 1..Len(args) : args[k] = tDashDash}
    IN  IF ks = {} THEN 0 ELSE CHOOSE k \in ks : \A m \in ks : k <= m

\* C2: once the parser has met the first `--` of argv, in Ready or with a
\* flag of any type awaiting its value, the parse has ended without error,
\* the tokens after `--` are the last positionals of the current scope,
\* unchanged and in order, and `--` is no flag's value.
C2_DashDashEndsParsing ==
    (FirstDashDash # 0 /\ Parsing /\ i > FirstDashDash) =>
        /\ Parsed
        /\ err = NoErr
        /\ ctx # 0
        /\ LET pos  == ctxs[ctx].positionalArgs
               rest == SubSeq(args, FirstDashDash + 1, Len(args))
           IN  /\ Len(pos) >= Len(rest)
               /\ SubSeq(pos, Len(pos) - Len(rest) + 1, Len(pos)) = rest
        /\ \A f \in FlagIds : FlagType(f) = "String" => value[f] # tDashDash

-----------------------------------------------------------------------------
(* C3 *)

\* the flags a token names when it is classified in the scope of context
\* record c: the flag of a long token's name, the flags of a short token's
\* characters
NamedFlags(c, arg) ==
    IF HasPrefix(arg, <<"-", "-">>)
    THEN LET key == SplitN(TrimPrefix(arg, <<"-", "-">>))[1]
         IN  IF HasKey(c.scopeFlags, key) THEN {c.scopeFlags[key]} ELSE {}
    ELSE IF HasPrefix(arg, <<"-">>)
    THEN {c.scopeFlags[<<arg[k]>>] :
              k \in {m \in 2..Len(arg) : HasKey(c.scopeFlags, <<arg[m]>>)}}
    ELSE {}

\* flag f was assigned in the scope of context record c
AssignedIn(c, f) == f \in Range(c.parsedFlags)

\* C3: a token classified in Ready that names a flag already assigned in the
\* current scope, in whichever of the forms `--name`, `--name=value`, `-c`,
\* `-xc` or `--c` the two occurrences are written, is rejected with
\* DuplicateFlag and leaves the flag's value as it was.
C3_SecondOccurrenceRejected ==
    [][ (/\ pc = "parseArgs" /\ i <= Len(args) /\ lastFlag = NilFlag
         /\ \E f \in NamedFlags(ctxs[ctx], args[i]) : AssignedIn(ctxs[ctx], f))
        => (/\ err'.kind = "DuplicateFlag"
            /\ \A f \in NamedFlags(ctxs[ctx], args[i]) :
                   AssignedIn(ctxs[ctx], f) => value'[f] = value[f]) ]_vars

-----------------------------------------------------------------------------
(* C4 *)

\* parseArgs from token idx of as on, in state s: the loop, then the check
\* at the end of the input
RECURSIVE ParseFrom(_, _, _)
ParseFrom(s, as, idx) ==
    IF s.returned THEN s
    ELSE IF idx > Len(as) THEN AfterLoop(s)
    ELSE ParseFrom(LoopBody(s, as, idx), as, idx + 1)

\* what the claim compares: success or error, the flag values, and every
\* scope (assigned set, pendingRequired set, positionals)
Outcome(s) == [err |-> s.err, value |-> s.value, ctxs |-> s.ctxs, ctx |-> s.ctx]

\* the characters of the Bool flags and of the String flags of the scope of
\* context record c
CharsOfType(c, type) ==
    {ch \in {"a", "b", "c", "e", "h", "n", "o"} :
        HasKey(c.scopeFlags, <<ch>>) /\ FlagType(c.scopeFlags[<<ch>>]) = type}

ValuesC4 == {tInclude, tExample}

\* C4: from every state in which the parser classifies the next token (no
\* flag pending, or a Bool flag), for Bool flags a, b and a String flag c of
\* the current scope and every value, parsing `-abc value` and parsing
\* `-a -b -c value` end in the same state: same error or success, same flag
\* values, same assigned, pendingRequired and positionals of every scope.
C4_CompoundEqualsSeparate ==
    (pc = "parseArgs" /\ (lastFlag = NilFlag \/ FlagType(lastFlag) = "Bool")) =>
        \A a, b \in CharsOfType(ctxs[ctx], "Bool") :
        \A c \in CharsOfType(ctxs[ctx], "String") :
        \A v \in ValuesC4 :
            Outcome(ParseFrom(State, <<<<"-", a, b, c>>, v>>, 1))
                = Outcome(ParseFrom(State, <<<<"-", a>>, <<"-", b>>, <<"-", c>>, v>>, 1))

\* `-abe include` has been parsed: all three flags are assigned in the root
\* scope and example-boi has the value
C4_Witness ==
    /\ pc = "done" /\ err = NoErr
    /\ \E k \in 1..Len(args) - 1 : args[k] = tABE /\ args[k + 1] = tInclude
    /\ value["all"] /\ value["brief"] /\ value["boi"] = tInclude
    /\ {"all", "brief", "boi"} \subseteq Range(ctxs[1].parsedFlags)

-----------------------------------------------------------------------------
(* C5 *)

\* arg is a compound short token with a non-Bool flag of the scope of
\* context record c before its last character
NonBoolNotLast(c, arg) ==
    /\ HasPrefix(arg, <<"-">>) /\ ~HasPrefix(arg, <<"-", "-">>)
    /\ \E k \in 2..Len(arg) - 1 :
           /\ HasKey(c.scopeFlags, <<arg[k]>>)
           /\ FlagType(c.scopeFlags[<<arg[k]>>]) # "Bool"

\* C5: a compound short token with a non-Bool flag before its last
\* character, classified in Ready, is rejected with CompoundTypeError,
\* whatever its other characters are.
C5_NonBoolInCompoundRejected ==
    [][ (/\ pc = "parseArgs" /\ i <= Len(args) /\ lastFlag = NilFlag
         /\ NonBoolNotLast(ctxs[ctx], args[i]))
        => err'.kind = "CompoundTypeError" ]_vars

-----------------------------------------------------------------------------
(* C6 *)

IsTrueOrFalse(tok) == ToLower(tok) \in {<<"t", "r", "u", "e">>, tFalse}

\* C6: when a Bool flag is pending and the next token is not "true" or
\* "false", the step is the classification of that token in Ready in the
\* same scope, and after it the flag is true and in the assigned set of the
\* scope it was given in.
C6_BoolKeepsTrueTokenReclassified ==
    [][ (/\ pc = "parseArgs" /\ i <= Len(args) /\ lastFlag # NilFlag
         /\ FlagType(lastFlag) = "Bool" /\ ~IsTrueOrFalse(args[i]))
        => (/\ LET s == Classify([State EXCEPT !.lastFlag = NilFlag], args, i)
               IN  /\ ctxs' = s.ctxs /\ ctx' = s.ctx /\ lastFlag' = s.lastFlag
                   /\ value' = s.value /\ err' = s.err
            /\ value'[lastFlag] = TRUE
            /\ HasKey(ctxs'[ctx].parsedFlags, FlagName(lastFlag))) ]_vars

-----------------------------------------------------------------------------
(* C7 *)

\* flag f was supplied in context k: a token named it there and it got its
\* value
Supplied(k, f) == AssignedIn(ctxs[k], f)

\* the names of the required flags declared on the scope of context k that
\* were not supplied there
MissingOf(k) ==
    {FlagName(OwnFlags(ctxs[k])[n]) :
        n \in {m \in 1..Len(OwnFlags(ctxs[k])) :
                  /\ Flags[OwnFlags(ctxs[k])[m]].Required
                  /\ ~Supplied(k, OwnFlags(ctxs[k])[m])}}

\* the help flag reads true from the selected context
HelpSet == ContextBool(ctxs, value, Selected, tHelp)[1]

\* C7 as stated: whenever a parse succeeds with several required flags of
\* the selected scope not supplied, Run returns one RequiredFlagsMissing
\* error that names exactly the missing flags.
C7_MissingRequiredReported ==
    (pc = "done" /\ err = NoErr /\ Cardinality(MissingOf(Selected)) >= 2) =>
        /\ result.ret.kind = "RequiredFlagsMissing"
        /\ result.ret.names = MissingOf(Selected)

\* C7, amended: whenever a parse succeeds with several required flags of the
\* selected scope not supplied and the help flag does not read true, Run
\* returns one RequiredFlagsMissing error that names exactly the missing
\* flags, and dispatches no action.
C7_MissingRequiredReportedUnlessHelp ==
    (pc = "done" /\ err = NoErr /\ Cardinality(MissingOf(Selected)) >= 2
        /\ ~HelpSet) =>
        /\ result.ret.kind = "RequiredFlagsMissing"
        /\ result.ret.names = MissingOf(Selected)
        /\ result.action = "none"

\* `build` was selected and neither of its two required flags supplied: the
\* one error names both
C7_Witness ==
    /\ pc = "done" /\ err = NoErr /\ ~HelpSet
    /\ ctxs[Selected].command = "build"
    /\ MissingOf(Selected) = {tOut, tNum}
    /\ result.ret.kind = "RequiredFlagsMissing"
    /\ result.ret.names = {tOut, tNum}

-----------------------------------------------------------------------------
(* C8 *)

\* the contexts from k outwards
RECURSIVE Chain(_)
Chain(k) == IF k = 0 THEN {} ELSE {k} \cup Chain(ctxs[k].parent)

\* the names of the required flags declared on a proper ancestor of the
\* selected scope and supplied nowhere on the chain
MissingOnAncestors ==
    UNION {{FlagName(OwnFlags(ctxs[k])[n]) :
               n \in {m \in 1..Len(OwnFlags(ctxs[k])) :
                         /\ Flags[OwnFlags(ctxs[k])[m]].Required
                         /\ \A j \in Chain(Selected) :
                                ~Supplied(j, OwnFlags(ctxs[k])[m])}} :
           k \in Chain(Selected) \ {Selected}}

\* C8: when a parse succeeds, help is not asked for, and a required flag
\* declared on an ancestor of the selected scope was not supplied, Run
\* returns RequiredFlagsMissing naming that flag and dispatches no action.
C8_AncestorRequiredChecked ==
    (pc = "done" /\ err = NoErr /\ ~HelpSet /\ MissingOnAncestors # {}) =>
        /\ result.ret.kind = "RequiredFlagsMissing"
        /\ MissingOnAncestors \subseteq result.ret.names
        /\ result.action = "none"

-----------------------------------------------------------------------------
(* C9 *)

\* context k is the scope of a command that does not inherit its parent's
\* flags
NotInheriting(k) ==
    /\ ctxs[k].command # NilCmd
    /\ ~Commands[ctxs[k].command].InheritParentFlags

\* C9 as stated: after argv ["-c", "5", "run"] a lookup of count from run's
\* context gives (0, false) and from the parent context (5, true).
C9_ChildCannotSeeParentFlag ==
    (pc = "done" /\ args = <<tC, tFive, tRun>>) =>
        /\ ContextInt(ctxs, value, 2, tCount) = <<0, FALSE>>
        /\ ContextInt(ctxs, value, 1, tCount) = <<5, TRUE>>

\* C9, amended: the alias table of a scope whose command does not inherit
\* holds no flag declared only on its parent, but a lookup of such a flag
\* walks on to the parent and gives what the same lookup from the parent
\* context gives: after argv ["-c", "5", "run"] a lookup of count gives
\* (5, true) from run's context as from the parent context.
C9_ChildLookupWalksToParent ==
    /\ \A k \in 1..Len(ctxs) : NotInheriting(k) =>
           \A n \in 1..Len(OwnFlags(ctxs[ctxs[k].parent])) :
               LET f == OwnFlags(ctxs[ctxs[k].parent])[n]
               IN  (\A m \in 1..Len(cmdFlags[ctxs[k].command]) :
                        cmdFlags[ctxs[k].command][m] # f) =>
                       /\ ~HasKey(ctxs[k].scopeFlags, FlagName(f))
                       /\ ~HasKey(ctxs[k].scopeFlags, <<Flags[f].Char>>)
                       /\ LookupOf(k, f) = LookupOf(ctxs[k].parent, f)
    /\ (Parsed /\ args = <<tC, tFive, tRun>>) =>
           /\ ContextInt(ctxs, value, 2, tCount) = <<5, TRUE>>
           /\ ContextInt(ctxs, value, 1, tCount) = <<5, TRUE>>

\* ["-c", "5", "run"] was parsed and run's action dispatched with run's
\* context, whose alias table does not hold count
C9_Witness ==
    /\ pc = "done" /\ args = <<tC, tFive, tRun>>
    /\ result.action = "run" /\ result.ctx = 2
    /\ NotInheriting(2)
    /\ ~HasKey(ctxs[2].scopeFlags, tCount)
    /\ value["count"] = 5

-----------------------------------------------------------------------------
(* C10 *)

\* C10: a flag declared on the root scope and assigned there is read from
\* every context below the root by its long name, with the assigned value
\* and wasSet = true.
C10_RootFlagReadableFromCommand ==
    \A k \in 2..Len(ctxs) :
        \A n \in 1..Len(App.Flags) :
            Supplied(1, App.Flags[n]) =>
                LookupOf(k, App.Flags[n]) = <<value[App.Flags[n]], TRUE>>

-----------------------------------------------------------------------------
(* C11 *)

\* the first context from k outwards whose alias table holds name n (0 if
\* there is none)
RECURSIVE FirstWith(_, _)
FirstWith(k, n) ==
    IF k = 0 THEN 0
    ELSE IF HasKey(ctxs[k].scopeFlags, n) THEN k
    ELSE FirstWith(ctxs[k].parent, n)

\* C11: a lookup by name from any context gives the flag value of the first
\* scope outwards whose alias table holds the name, with wasSet true exactly
\* when the name is in that scope's own assigned set; no scope further out
\* has a part in the result.
C11_InnerScopeShadowsOuter ==
    Parsed =>
        \A k \in 1..Len(ctxs) : \A f \in FlagIds :
            LET n == FlagName(f)
                j == FirstWith(k, n)
            IN  j # 0 =>
                    LET g == ctxs[j].scopeFlags[n]
                    IN  Lookup(ctxs, value, k, n, FlagType(g), Zero(FlagType(g)))
                            = <<value[g], HasKey(ctxs[j].parsedFlags, n)>>

-----------------------------------------------------------------------------
(* C12 *)

\* names to look up: long names and characters of declared flags, and
\* names that no flag has
NamesC12 == {tOut, tNum, tCount, tVerbose, tExample, <<"o">>, <<"c">>, <<"x">>,
             Empty}

\* C12: from every context, a name that is in no alias table of the parent
\* chain reads as the zero value of the type asked for, with wasSet false,
\* by each of String, Int, Bool and Float.  (The four lookups assign to
\* nothing but their locals.)
C12_AbsentNameReadsZero ==
    \A k \in 1..Len(ctxs) : \A n \in NamesC12 :
        FirstWith(k, n) = 0 =>
            /\ ContextString(ctxs, value, k, n) = <<Empty, FALSE>>
            /\ ContextInt(ctxs, value, k, n) = <<0, FALSE>>
            /\ ContextBool(ctxs, value, k, n) = <<FALSE, FALSE>>
            /\ ContextFloat(ctxs, value, k, n) = <<0, FALSE>>

\* count was given the value 5 in the root scope and run was entered: out
\* and x are in no alias table from run's context outwards, count is
C12_Witness ==
    /\ pc = "done" /\ args = <<tC, tFive, tRun>> /\ Len(ctxs) = 2
    /\ FirstWith(2, tOut) = 0 /\ FirstWith(2, <<"x">>) = 0
    /\ FirstWith(2, tCount) = 1
    /\ ContextInt(ctxs, value, 2, tOut) = <<0, FALSE>>

-----------------------------------------------------------------------------
(* C13 *)

\* C13: a token classified in Ready that names a flag already assigned in
\* the current scope or in a scope further out (the child scope exposes the
\* same instance by inheritance) is rejected with DuplicateFlag and leaves
\* the flag's value as it was.
C13_AssignedOncePerPass ==
    [][ (/\ pc = "parseArgs" /\ i <= Len(args) /\ lastFlag = NilFlag
         /\ \E f \in NamedFlags(ctxs[ctx], args[i]) :
                \E k \in Chain(ctx) : AssignedIn(ctxs[k], f))
        => (/\ err'.kind = "DuplicateFlag"
            /\ \A f \in NamedFlags(ctxs[ctx], args[i]) :
                   (\E k \in Chain(ctx) : AssignedIn(ctxs[k], f))
                       => value'[f] = value[f]) ]_vars

-----------------------------------------------------------------------------
(* C14 *)

\* C14: with a String, Int or Float flag awaiting its value, a next token
\* with a leading `-` is not taken as the value and raises no error of its
\* own: the step is the classification of that token in Ready in the same
\* scope (flag values, contexts and error are those of that classification).
C14_DashTokenNotConsumed ==
    [][ (/\ pc = "parseArgs" /\ i <= Len(args) /\ lastFlag # NilFlag
         /\ FlagType(lastFlag) \in {"String", "Int", "Float"}
         /\ HasPrefix(args[i], <<"-">>))
        => LET s == Classify([State EXCEPT !.lastFlag = NilFlag], args, i)
           IN  /\ value' = s.value /\ err' = s.err
               /\ ctxs' = s.ctxs /\ ctx' = s.ctx ]_vars

-----------------------------------------------------------------------------
(* C15 *)

-----------------------------------------------------------------------------
(* C16 *)

\* C16: whenever the parse has ended in an error, Run has returned that
\* error and has invoked no action, neither the App's nor a command's.
C16_ErrorMeansNoAction ==
    (pc = "done" /\ err # NoErr) =>
        /\ result.returned
        /\ result.ret = err
        /\ result.action = "none"

\* the parse failed inside a command's scope, with tokens of argv left
\* unread, and Run returned the error without an action
C16_Witness ==
    /\ pc = "done" /\ err # NoErr
    /\ Len(ctxs) >= 2 /\ ctx >= 2 /\ i <= Len(args)
    /\ Commands[ctxs[ctx].command].Action
    /\ result.ret = err /\ result.action = "none"

-----------------------------------------------------------------------------
(* C17 *)

\* e is an error of scope construction: the App is missing, or a flag of the
\* scope has no name
ConfigError(e) == e.kind \in {"MissingApp", "MissingName"}

\* C17: in a run that has ended in a ConfigError, of the root scope or of a
\* command's scope, no token of argv was read: none was classified, no flag
\* was assigned or changed, no positional was stored and no scope entered.
C17_ConfigErrorBeforeAnyToken ==
    (pc = "done" /\ ConfigError(err)) =>
        /\ i = 1
        /\ value = [f \in FlagIds |-> Flags[f].Default]
        /\ \A k \in 1..Len(ctxs) :
               /\ ctxs[k].parsedFlags = EmptyMap
               /\ ctxs[k].positionalArgs = <<>>

-----------------------------------------------------------------------------
(* C18 *)

\* the flag list of the scope of cmd (of the root scope for NilCmd) holds a
\* nil entry or a flag without a name, or the App is missing
BadScope(cmd) ==
    LET flags == IF cmd = NilCmd THEN appFlags ELSE cmdFlags[cmd]
    IN  \/ app = NilApp
        \/ \E n \in 1..Len(flags) :
               flags[n] = NilFlag \/ FlagName(flags[n]) = Empty

\* C18: a step that constructs a scope (the root scope at the start of Run,
\* a command's scope at its token) whose App is missing or whose flag list
\* holds a nil entry or a flag without a name ends the parse with a
\* ConfigError value: the process does not crash and no scope is added.
C18_BadScopeGivesConfigError ==
    [][ (\/ pc = "Run" /\ BadScope(NilCmd)
         \/ /\ pc = "parseArgs" /\ i <= Len(args)
            /\ lastFlag = NilFlag \/ FlagType(lastFlag) = "Bool"
            /\ HasKey(ctxs[ctx].scopeCommands, args[i])
            /\ BadScope(ctxs[ctx].scopeCommands[args[i]]))
        => (/\ pc' \in {"parsed", "done"}
            /\ ConfigError(err')
            /\ ctxs' = ctxs) ]_vars

-----------------------------------------------------------------------------
(* C19 *)

\* the five tables of context record c are released
Released(c) ==
    /\ c.parsedFlags = NilMap /\ c.positionalArgs = <<>>
    /\ c.requiredFlags = NilMap /\ c.scopeCommands = NilMap
    /\ c.scopeFlags = NilMap

\* C19 as stated: once Free has been called on any context of the chain of
\* scopes, a further call of Free, on the same or on another context of the
\* chain, changes no state.
C19_FurtherFreeChangesNothing ==
    [][ (pc = "freed" /\ pc' = "freed") => ctxs' = ctxs ]_vars

\* C19, amended: a call of Free on a context releases the tables of that
\* context and of every ancestor and leaves every other context as it was;
\* called on a context whose tables and whose ancestors' tables are released
\* already (the same context again, or an ancestor of it) it changes no
\* state.  A call on a descendant still releases the descendant's tables.
C19_FreeIdempotentUpTheChain ==
    [][ (pc \in {"done", "freed"} /\ pc' = "freed")
        => \E k \in 1..Len(ctxs) :
               /\ \A j \in Chain(k) : Released(ctxs'[j])
               /\ \A j \in (1..Len(ctxs)) \ Chain(k) : ctxs'[j] = ctxs[j]
               /\ (\A j \in Chain(k) : Released(ctxs[j])) => ctxs' = ctxs
               /\ UNCHANGED <<value, err, result, ctx>> ]_vars

\* Free was called on the innermost of three scopes, build's subcommand
\* deep: the tables of all three contexts are released (and a further call
\* on any of them leaves this state)
C19_Witness ==
    /\ pc = "freed" /\ Len(ctxs) = 3
    /\ ctxs[3].command = "deep" /\ ctxs[2].command = "build"
    /\ \A k \in 1..3 : Released(ctxs[k])

-----------------------------------------------------------------------------
(* C20 *)

\* flag f is registered in the alias table of some context built so far
Registered(f) == \E k \in 1..Len(ctxs) : f \in Range(ctxs[k].scopeFlags)

\* C20: the environment variable of a flag instance is applied at the
\* instance's first registration and never again in the pass: a step that
\* builds a further scope leaves the value of every instance that is
\* registered already as it was, whether the new scope lists the instance
\* or inherits it (a Bool flag is not toggled a second time, an assigned
\* value is not replaced by the variable's).
C20_EnvAppliedAtFirstRegistration ==
    [][ Len(ctxs') > Len(ctxs)
        => \A f \in FlagIds : Registered(f) => value'[f] = value[f] ]_vars

-----------------------------------------------------------------------------
(* C21 *)

\* what the claim makes of the default v of flag f: v itself if no variable
\* is configured or the variable is absent or empty; otherwise the
\* variable's content for a String flag, its number for an Int or Float flag
\* if it is one (v if not), and the inverse of v for a Bool flag
EnvBound(v, f) ==
    LET e == Getenv(Flags[f].EnvVar)
    IN  IF Flags[f].EnvVar = "" \/ e = Empty THEN v
        ELSE CASE FlagType(f) = "String" -> e
               [] FlagType(f) = "Int" -> IF Atoi(e).ok THEN Atoi(e).v ELSE v
               [] FlagType(f) = "Float" ->
                      IF ParseFloat(e).ok THEN ParseFloat(e).v ELSE v
               [] OTHER -> ~v

\* the flag list of the scope that the step has just built
NewScopeFlags ==
    LET c == ctxs'[Len(ctxs')].command
    IN  IF c = NilCmd THEN appFlags' ELSE cmdFlags'[c]

\* C21: the step that builds a scope binds each flag of the scope's list to
\* the environment as the claim says (an absent or empty variable changes
\* nothing, a non-empty one replaces a String default, replaces an Int or
\* Float default only if it is a number, inverts a Bool default whatever it
\* holds), and changes the value of no other flag.
C21_EnvBinding ==
    [][ Len(ctxs') > Len(ctxs)
        => \A f \in FlagIds :
               value'[f] = IF f \in Range(NewScopeFlags)
                           THEN EnvBound(value[f], f) ELSE value[f] ]_vars

\* the root scope was built with a flag of each type bound to the variable,
\* which holds the word "must": the String flag has it, the Bool flag is
\* inverted, the Int and the Float flag keep their defaults
C21_Witness ==
    /\ pc = "parseArgs" /\ i = 1 /\ env = MustEnv
    /\ appFlags = <<"boi", "verbose", "level", "ratio", "help">>
    /\ value["boi"] = tMust /\ value["verbose"] = TRUE
    /\ value["level"] = 3 /\ value["ratio"] = 30

-----------------------------------------------------------------------------
(* C23 *)

\* the token read as a number of the flag's type (a Float in tenths)
NumberOf(f, tok) ==
    IF FlagType(f) = "Int" THEN Atoi(tok)
    ELSE [ok |-> ParseFloat(tok).ok,
          v |-> IF ParseFloat(tok).ok THEN ParseFloat(tok).v ELSE 0]

\* C23: the step that hands a value token to a pending Int or Float flag
\* with a declared range [lo, hi], lo < hi, stores the number and raises no
\* error exactly when the token is a number v with lo <= v <= hi; a number
\* outside the range gives ConstraintViolation and a token that is no number
\* gives TypeMismatch.
C23_SetInclusiveRange ==
    [][ ( /\ pc = "parseArgs" /\ i <= Len(args)
          /\ lastFlag # NilFlag
          /\ FlagType(lastFlag) \in {"Int", "Float"}
          /\ Flags[lastFlag].Range[1] < Flags[lastFlag].Range[2]
          /\ args[i] \in ValueTokens )
        => LET n == NumberOf(lastFlag, args[i])
           IN  IF n.ok /\ Flags[lastFlag].Range[1] <= n.v
                       /\ n.v <= Flags[lastFlag].Range[2]
               THEN err' = NoErr /\ value'[lastFlag] = n.v
               ELSE IF n.ok THEN err'.kind = "ConstraintViolation"
               ELSE err'.kind = "TypeMismatch" ]_vars

-----------------------------------------------------------------------------
(* C27 *)

\* the keys of a flag: its long name and, if it has one, its character
KeysOf(f) ==
    {FlagName(f)} \cup
    (IF Flags[f].Char # NoChar THEN {<<Flags[f].Char>>} ELSE {})

\* the alias table tbl against the claim's recipe, for a scope of command
\* cmd below the table inh, with the declared flags own and the implicit
\* help flag present or not: the keys are those of the own flags, of the
\* help flag and, if the command inherits, of inh; a key of an own flag or
\* of the help flag maps to such a flag, every other key to what inh maps
\* it to
AliasTableIs(tbl, own, inh, cmd, withHelp) ==
    LET inherits == cmd # NilCmd /\ Commands[cmd].InheritParentFlags
        declared == Range(own) \cup (IF withHelp THEN {HelpOption} ELSE {})
        ownKeys  == UNION {KeysOf(f) : f \in Range(own)}
        newKeys  == UNION {KeysOf(f) : f \in declared}
        inhKeys  == IF inherits THEN DOMAIN inh ELSE {}
    IN  /\ DOMAIN tbl = newKeys \cup inhKeys
        /\ \A k \in ownKeys \ KeysOf(HelpOption) :
               tbl[k] \in {f \in Range(own) : k \in KeysOf(f)}
        /\ \A k \in newKeys : tbl[k] \in {f \in declared : k \in KeysOf(f)}
        /\ \A k \in inhKeys \ newKeys : tbl[k] = inh[k]

\* the table of the scope that the step builds, against the recipe
BuiltTableIs(withHelp(_)) ==
    LET new == ctxs'[Len(ctxs')]
        cmd == new.command
        own == IF cmd = NilCmd THEN appFlags ELSE cmdFlags[cmd]
        inh == IF new.parent = 0 THEN EmptyMap ELSE ctxs[new.parent].scopeFlags
    IN  AliasTableIs(new.scopeFlags, own, inh, cmd, withHelp(cmd))

HelpUnlessDisabled(cmd) == ~Apps[app].DisableHelpOption

HelpUnlessDisabledOrHelpCommand(cmd) ==
    ~Apps[app].DisableHelpOption
    /\ ~(cmd # NilCmd /\ Commands[cmd].Name = tHelp)

\* C27: the step that builds a scope leaves it with an alias table that is
\* exactly the scope's own flags under long name and character, plus the
\* parent's table if and only if the command inherits its parent's flags,
\* plus the implicit help flag unless it is disabled, an own flag winning
\* over an inherited entry with the same key.
C27_AliasTableExact ==
    [][Len(ctxs') > Len(ctxs) => BuiltTableIs(HelpUnlessDisabled)]_vars

\* C27 amended: the same, the implicit help flag being added unless it is
\* disabled or the scope's command is named "help".
C27_AliasTableExactButHelpCommand ==
    [][Len(ctxs') > Len(ctxs)
       => BuiltTableIs(HelpUnlessDisabledOrHelpCommand)]_vars

\* the scope of deep, which inherits from build, was built with an own flag
\* named like build's out: the long name maps to the own flag, the character
\* of build's flag still to build's flag, and the help flag is there
C27_Witness ==
    \E k \in 1..Len(ctxs) :
        /\ ctxs[k].command = "deep"
        /\ DOMAIN ctxs[k].scopeFlags
               = {tOut, <<"o">>, tNum, <<"n">>, tHelp, <<"h">>}
        /\ ctxs[k].scopeFlags[tOut] = "shadow"
        /\ ctxs[k].scopeFlags[<<"o">>] = "out"
        /\ ctxs[k].scopeFlags[tHelp] = HelpOption

-----------------------------------------------------------------------------
(* C28 *)

\* the scopes are one path: the first is the root, each other one has the
\* one before it as parent and a command of that parent's command table,
\* and the current scope is the last
SinglePath ==
    /\ Len(ctxs) >= 1
    /\ ctx = Len(ctxs)
    /\ ctxs[1].parent = 0 /\ ctxs[1].command = NilCmd
    /\ \A k \in 2..Len(ctxs) :
           /\ ctxs[k].parent = k - 1
           /\ ctxs[k].command # NilCmd
           /\ \E n \in DOMAIN ctxs[k - 1].scopeCommands :
                  ctxs[k - 1].scopeCommands[n] = ctxs[k].command

\* the next token is classified as a command: it is not taken as the value
\* of a pending flag and it is a name of the current scope's command table
CommandToken ==
    /\ pc = "parseArgs" /\ i <= Len(args)
    /\ ~(lastFlag # NilFlag /\ FlagType(lastFlag) # "Bool")
    /\ HasKey(ctxs[ctx].scopeCommands, args[i])

\* C28: while the parser runs and when it has ended without error the
\* scopes form a single path from the current scope to the root; the parse
\* starts with the root scope alone and a step adds a scope exactly when
\* its token is classified as a command (so that the number of scopes is
\* one plus the number of such tokens); no step removes a scope or changes
\* the parent or the command of one.
C28_ScopesFormSinglePath ==
    /\ [](Parsing /\ err = NoErr => SinglePath)
    /\ [][ /\ (pc = "Run" /\ pc' = "parseArgs" => Len(ctxs') = 1)
           /\ (pc = "parseArgs" /\ err' = NoErr
                  => Len(ctxs') = Len(ctxs) + (IF CommandToken THEN 1 ELSE 0))
           /\ (pc = "parseArgs"
                  => /\ Len(ctxs') >= Len(ctxs)
                     /\ \A k \in 1..Len(ctxs) :
                            /\ ctxs'[k].parent = ctxs[k].parent
                            /\ ctxs'[k].command = ctxs[k].command) ]_vars

\* three scopes, root, build and deep, after the argv build deep and two
\* more tokens that are no commands
C28_Witness ==
    /\ pc = "parsed" /\ err = NoErr
    /\ Len(args) = 4 /\ args[1] = tBuild /\ args[2] = tDeep
    /\ Len(ctxs) = 3 /\ ctx = 3
    /\ ctxs[3].command = "deep" /\ ctxs[2].command = "build"

-----------------------------------------------------------------------------
(* C26 *)

\* C26: the count that the last call of HelpPrinter.Write returned is the
\* number of bytes by which that call made the buffer grow.
C26_WriteReturnsBufferGrowth == wrote.n = wrote.grown

-----------------------------------------------------------------------------
(* C29 *)

\* the lengths of the lines of a text: of the runs between its newlines
RECURSIVE LineLengths(_, _)
LineLengths(s, len) ==
    IF s = <<>> THEN {len}
    ELSE IF Head(s) = NewLine THEN {len} \cup LineLengths(Tail(s), 0)
    ELSE LineLengths(Tail(s), len + 1)

\* the lengths of the words of a text: of the runs between spaces and
\* newlines
RECURSIVE WordLengths(_, _)
WordLengths(s, len) ==
    IF s = <<>> THEN {len}
    ELSE IF Head(s) \in {" ", NewLine} THEN {len} \cup WordLengths(Tail(s), 0)
    ELSE WordLengths(Tail(s), len + 1)

\* C29: with margins 0 <= LeftMargin < RightMargin, set before the first
\* text and left alone since, and every word of the texts written at most
\* RightMargin - LeftMargin long, no line of the buffer is longer than
\* RightMargin.
C29_NoLineBeyondRightMargin ==
    ( /\ 0 <= hp.LeftMargin /\ hp.LeftMargin < hp.RightMargin
      /\ \A w \in WordLengths(wrote.all, 0) :
             w <= hp.RightMargin - hp.LeftMargin )
    => \A l \in LineLengths(hp.buf, 0) : l <= hp.RightMargin

-----------------------------------------------------------------------------
(* C24 *)

\* the text as a sequence of characters
UsageNameBuild ==
    <<"U", "s", "a", "g", "e", ":", " ">> \o tProg
    \o <<" ", "[", "-", "n", " ", "S", "T", "R", "]">>
    \o <<" ", "[", "b", "u", "i", "l", "d", "]", NewLine>>
UsageNameHelpBuildHelp ==
    <<"U", "s", "a", "g", "e", ":", " ">> \o tProg
    \o <<" ", "[", "-", "n", " ", "S", "T", "R", "]", " ", "[", "-", "h", "]">>
    \o <<" ", "[", "b", "u", "i", "l", "d", ",", "h", "e", "l", "p", "]",
         NewLine>>

\* the usage of the root scope has been printed, at width 80, in the first
\* call of Run on an App that declares the one flag name/-n and the one
\* command build
NameBuildPrinted ==
    /\ pc = "done" /\ earlier = <<>>
    /\ hp.printed = "usage" /\ hp.ctx = 1 /\ hp.width = 80
    /\ SelectSeq(appFlags, LAMBDA f : f # HelpOption) = <<"name">>
    /\ SelectSeq(appCommands, LAMBDA c : c # HelpCommand) = <<"build">>

\* C24: the usage line of a scope with the one optional String flag name/-n
\* with metavar STR and the one command build, at width 80, is exactly
\* `Usage: <prog> [-n STR] [build]`.
C24_UsageLineExact == NameBuildPrinted => hp.out = UsageNameBuild

\* C24 amended: it is that line if the scope has an action and the implicit
\* help flag and help command are disabled, and
\* `Usage: <prog> [-n STR] [-h] [build,help]` if it has an action and they
\* are enabled.
C24_UsageLineExactWithoutHelp ==
    NameBuildPrinted /\ Apps[app].Action =>
        hp.out = IF Apps[app].DisableHelpOption /\ Apps[app].DisableHelpCommand
                 THEN UsageNameBuild ELSE UsageNameHelpBuildHelp

\* the line was printed for the App without implicit help
C24_Witness ==
    NameBuildPrinted /\ app = "bare" /\ hp.out = UsageNameBuild

-----------------------------------------------------------------------------
(* C25 *)

\* the names of the commands, separated by commas
RECURSIVE Joined(_)
Joined(cmds) ==
    IF Len(cmds) = 0 THEN <<>>
    ELSE IF Len(cmds) = 1 THEN Commands[cmds[1]].Name
    ELSE Commands[cmds[1]].Name \o <<",">> \o Joined(Tail(cmds))

\* how often character ch occurs in text s
Count(s, ch) == Cardinality({k \in 1..Len(s) : s[k] = ch})

\* text s ends with text e
EndsWith(s, e) ==
    Len(s) >= Len(e) /\ SubSeq(s, Len(s) - Len(e) + 1, Len(s)) = e

\* the scope whose usage has been printed: its command list, whether it
\* has an action, the flags that its usage shows
PrintedCommands ==
    IF ctxs[hp.ctx].command = NilCmd THEN appCommands
    ELSE cmdSubCommands[ctxs[hp.ctx].command]
PrintedHasAction ==
    IF ctxs[hp.ctx].command = NilCmd THEN Apps[app].Action
    ELSE Commands[ctxs[hp.ctx].command].Action
PrintedFlags == initPrint(State, hp.ctx).flags

\* the summary has the form the claim gives it
SummaryAsClaimed ==
    IF Len(PrintedCommands) = 0
    THEN \* no summary: no brace, and no bracket but those of the
         \* optional flags
         /\ Count(hp.out, "{") = 0 /\ Count(hp.out, "}") = 0
         /\ Count(hp.out, "[")
                = Len(SelectSeq(PrintedFlags, LAMBDA f : ~Flags[f].Required))
    ELSE EndsWith(hp.out,
                  (IF PrintedHasAction THEN <<" ", "[">> ELSE <<" ", "{">>)
                  \o Joined(PrintedCommands)
                  \o (IF PrintedHasAction THEN <<"]">> ELSE <<"}">>)
                  \o <<NewLine>>)

\* C25: the usage line printed for a scope ends with ` {a,b,c}` if the
\* scope, root or command, has no action, with ` [a,b,c]` if it has one,
\* and has no command summary if the scope has no commands.
C25_CommandSummary ==
    pc = "done" /\ hp.printed = "usage" => SummaryAsClaimed

-----------------------------------------------------------------------------
(* C22 *)

\* what a parse shows of what a call of Run left: per scope the
\* positionals, the assigned set and the pendingRequired set; the flag
\* values; the usage line of the selected scope
Seen(l) ==
    [scopes |-> [k \in 1..Len(l.ctxs) |->
                     [positionals |-> l.ctxs[k].positionalArgs,
                      assigned |-> DOMAIN l.ctxs[k].parsedFlags,
                      pendingRequired |-> DOMAIN l.ctxs[k].requiredFlags]],
     value |-> l.value,
     usage |-> PrintUsageOf(l, Len(l.ctxs)).out]

\* C22: when a further call of Run on the same App, with the same argv and
\* environment, has returned, it has returned the error that the call
\* before returned, and if that is none, it has left the same positionals,
\* assigned sets, pendingRequired sets, flag values and usage line.
C22_SecondRunSameResult ==
    pc = "done" /\ earlier # <<>> =>
        /\ result.ret = earlier[Len(earlier)].result.ret
        /\ result.ret = NoErr => Seen(Left) = Seen(earlier[Len(earlier)])

-----------------------------------------------------------------------------
(* C30 *)

\* the left column of a flag's entry as writeFlagSection writes it: the
\* long name, the character, the metavar ("value" by default for a flag
\* that is not Bool), each followed by its blank, and one more blank
LeftColumn(f) ==
    <<"-", "-">> \o Flags[f].Name
    \o (IF Flags[f].Char = NoChar THEN <<>> ELSE <<"/", "-", Flags[f].Char>>)
    \o <<" ">>
    \o (IF Flags[f].MetaVar # Empty THEN Flags[f].MetaVar
        ELSE IF Flags[f].Type = "Bool" THEN <<>>
        ELSE <<"v", "a", "l", "u", "e">>)
    \o <<" ", " ">>

\* the entry of flag f as the claim lays it out for a column width of w: the
\* left column from column 2 on, the usage text from column w on, on the
\* same line if the left column with its indent is at most w characters
\* wide, on the next line if not
EntryAsClaimed(f, w) ==
    IF 2 + Len(LeftColumn(f)) <= w
    THEN Spaces(2) \o LeftColumn(f) \o Spaces(w - 2 - Len(LeftColumn(f)))
         \o Flags[f].Usage \o <<NewLine>>
    ELSE Spaces(2) \o LeftColumn(f) \o <<NewLine>>
         \o Spaces(w) \o Flags[f].Usage \o <<NewLine>>

RECURSIVE EntriesAsClaimed(_, _)
EntriesAsClaimed(flags, w) ==
    IF flags = <<>> THEN <<>>
    ELSE EntryAsClaimed(Head(flags), w) \o EntriesAsClaimed(Tail(flags), w)

\* the two flag sections of a help text, for the flags that it shows
SectionsAsClaimed(flags, w) ==
    <<NewLine>> \o tRequiredFlags \o <<":", NewLine>>
    \o EntriesAsClaimed(SelectSeq(flags, LAMBDA f : Flags[f].Required), w)
    \o <<NewLine>> \o tOptionalFlags \o <<":", NewLine>>
    \o EntriesAsClaimed(SelectSeq(flags, LAMBDA f : ~Flags[f].Required), w)

\* C30: the help text printed for a scope ends with its two flag sections,
\* in which every entry has its left column from column 2 on and its usage
\* text from column columnWidth on, on the same line when the left column,
\* indent included, is at most columnWidth characters wide, and on the
\* following line, after a line break, when it is wider.
C30_FlagSectionColumns ==
    pc = "done" /\ hp.printed = "help" =>
        EndsWith(hp.out, SectionsAsClaimed(PrintedFlags, hp.columnWidth))

\* the help of the root scope was printed for the flags exact, all and
\* example-boi: the left column of exact is 26 wide with its indent, that
\* of example-boi 24, the column width
C30_Witness ==
    /\ pc = "done" /\ hp.printed = "help" /\ hp.ctx = 1
    /\ hp.columnWidth = 24
    /\ SelectSeq(appFlags, LAMBDA f : f # HelpOption) = <<"exact", "all", "boi">>
    /\ 2 + Len(LeftColumn("exact")) = 26
    /\ 2 + Len(LeftColumn("boi")) = 24

-----------------------------------------------------------------------------
(* C31 *)

\* text s starts with text e
StartsWith(s, e) == Len(s) >= Len(e) /\ SubSeq(s, 1, Len(e)) = e

\* how the usage line shows flag f: its character, or its long name if it
\* has none, and its metavar; bare if f is required, in square brackets if
\* it is optional
ShownAs(f) ==
    LET alias == IF Flags[f].Char = NoChar THEN <<"-", "-">> \o Flags[f].Name
                 ELSE <<"-", Flags[f].Char>>
        meta  == IF Flags[f].MetaVar # Empty THEN <<" ">> \o Flags[f].MetaVar
                 ELSE IF Flags[f].Type = "Bool" THEN <<>>
                 ELSE <<" ", "v", "a", "l", "u", "e">>
    IN  IF Flags[f].Required THEN <<" ">> \o alias \o meta
        ELSE <<" ", "[">> \o alias \o meta \o <<"]">>

\* the flags of the list that are required, in their order in the list,
\* and those that are not
RECURSIVE RequiredOf(_)
RequiredOf(flags) ==
    IF flags = <<>> THEN <<>>
    ELSE IF Flags[Head(flags)].Required
    THEN <<Head(flags)>> \o RequiredOf(Tail(flags))
    ELSE RequiredOf(Tail(flags))
RECURSIVE OptionalOf(_)
OptionalOf(flags) ==
    IF flags = <<>> THEN <<>>
    ELSE IF Flags[Head(flags)].Required THEN OptionalOf(Tail(flags))
    ELSE <<Head(flags)>> \o OptionalOf(Tail(flags))

RECURSIVE AllShown(_)
AllShown(flags) ==
    IF flags = <<>> THEN <<>> ELSE ShownAs(Head(flags)) \o AllShown(Tail(flags))

\* the usage line as far as the flags go
UsageUpToFlags ==
    <<"U", "s", "a", "g", "e", ":", " ">> \o initPrint(State, hp.ctx).execStr
    \o AllShown(RequiredOf(PrintedFlags)) \o AllShown(OptionalOf(PrintedFlags))

\* C31: the usage line of a scope shows, after the command line, every
\* required flag of the scope, bare and in declaration order, and then every
\* optional flag, in square brackets and in declaration order, each flag
\* once.
C31_RequiredBeforeOptional ==
    pc = "done" /\ hp.printed # "none" => StartsWith(hp.out, UsageUpToFlags)

\* the usage of the root scope was printed for an App that declares the
\* optional flag example-boi before the required flag very-long-option
C31_Witness ==
    /\ pc = "done" /\ hp.printed = "usage" /\ hp.ctx = 1
    /\ SelectSeq(appFlags, LAMBDA f : f # HelpOption) = <<"boi", "wide">>
    /\ RequiredOf(PrintedFlags) = <<"wide">>
    /\ Len(OptionalOf(PrintedFlags)) >= 2

-----------------------------------------------------------------------------
(* C32 *)

\* the step is parseArgs rejecting the token args[i] in the current scope
\* (an error of NewContext leaves no current scope)
TokenRejected ==
    /\ pc = "parseArgs" /\ i <= Len(args)
    /\ err = NoErr /\ err' # NoErr /\ err'.kind # "panic"
    /\ ctx # 0 /\ ctx' = ctx

\* C32: a token that parseArgs rejects leaves the assigned set, the
\* pendingRequired set and the positionals of the current scope and the
\* value of every flag as they were before the token.
C32_RejectedTokenLeavesState ==
    [][ TokenRejected =>
            /\ ctxs'[ctx].parsedFlags = ctxs[ctx].parsedFlags
            /\ ctxs'[ctx].requiredFlags = ctxs[ctx].requiredFlags
            /\ ctxs'[ctx].positionalArgs = ctxs[ctx].positionalArgs
            /\ value' = value ]_vars

-----------------------------------------------------------------------------
(* C33 *)

\* required flag f of the scope of context record c is in exactly one of
\* the scope's pendingRequired set and its assigned set, by its long name
InExactlyOne(c, f) ==
    HasKey(c.requiredFlags, FlagName(f)) # HasKey(c.parsedFlags, FlagName(f))

\* C33: after a successful parse every required flag declared on the
\* deepest scope is, by its long name, in exactly one of the scope's
\* pendingRequired set and its assigned set.
C33_PendingOrAssigned ==
    Parsed /\ err = NoErr /\ ctx # 0 =>
        \A n \in 1..Len(OwnFlags(ctxs[ctx])) :
            Flags[OwnFlags(ctxs[ctx])[n]].Required
                => InExactlyOne(ctxs[ctx], OwnFlags(ctxs[ctx])[n])

-----------------------------------------------------------------------------
(* C34 *)

\* the typed lookup of flag f's single-character alias from context k
LookupByChar(k, f) ==
    Lookup(ctxs, value, k, <<Flags[f].Char>>, FlagType(f), Zero(FlagType(f)))

\* the scope of context k knows flag f by its long name and by its
\* character
KnownBothWays(k, f) ==
    /\ Flags[f].Char # NoChar
    /\ HasKey(ctxs[k].scopeFlags, FlagName(f))
    /\ ctxs[k].scopeFlags[FlagName(f)] = f
    /\ HasKey(ctxs[k].scopeFlags, <<Flags[f].Char>>)
    /\ ctxs[k].scopeFlags[<<Flags[f].Char>>] = f

\* C34: in every context, the lookup of a flag by its single-character
\* alias gives the same value and the same wasSet as the lookup by its long
\* name, whichever token form assigned the flag.
C34_AliasLookupSameAsName ==
    Parsing =>
        \A k \in 1..Len(ctxs) : \A f \in FlagIds :
            KnownBothWays(k, f) => LookupByChar(k, f) = LookupOf(k, f)

-----------------------------------------------------------------------------
(* C35 *)

\* C35: no step of Run or NewContext changes the declaration tree: the
\* Flags and Commands lists of the App and the Flags and SubCommands lists
\* of every Command stay as they are.
C35_DeclarationTreeUnchanged ==
    [][ /\ appFlags' = appFlags
        /\ appCommands' = appCommands
        /\ cmdFlags' = cmdFlags
        /\ cmdSubCommands' = cmdSubCommands ]_vars

-----------------------------------------------------------------------------
(* C36 *)

\* C36: when the parse has succeeded and the help flag reads true from the
\* selected context, Run prints the help text and returns nil: it calls no
\* action and reports no missing required flag, whether or not required
\* flags of the selected scope are pending.
C36_HelpBeforeRequiredAndDispatch ==
    pc = "done" /\ err = NoErr /\ HelpSet =>
        /\ result.printed = "help"
        /\ result.ret = NoErr
        /\ result.action = "none"

\* Run has printed the help of `build` although its two required flags are
\* pending
C36_Witness ==
    /\ pc = "done" /\ err = NoErr /\ HelpSet
    /\ ctxs[Selected].command = "build"
    /\ Cardinality(DOMAIN ctxs[Selected].requiredFlags) = 2
    /\ result.printed = "help" /\ result.ret = NoErr

-----------------------------------------------------------------------------
(* C39 *)

\* the parser classifies token args[i] and the token is `--`: no flag is
\* pending, or the pending flag is a Bool flag, which does not take `--`
\* as its value and leaves the token to parseArg
DashDashClassified ==
    /\ pc = "parseArgs"
    /\ i <= Len(args)
    /\ args[i] = tDashDash
    /\ lastFlag = NilFlag \/ FlagType(lastFlag) = "Bool"

\* C39: the pass of the loop that classifies `--` at index i appends
\* args[i:] to the positionals of the current scope, the `--` token first
\* and every later token after it, changes no other scope's positionals and
\* ends the parse without error.
C39_DashDashItselfIsPositional ==
    [][DashDashClassified =>
          /\ pc' = "parsed"
          /\ err' = NoErr
          /\ ctx' = ctx
          /\ Len(ctxs') = Len(ctxs)
          /\ ctxs'[ctx].positionalArgs =
                 ctxs[ctx].positionalArgs \o SubSeq(args, i, Len(args))
          /\ ctxs'[ctx].positionalArgs[Len(ctxs[ctx].positionalArgs) + 1]
                 = tDashDash
          /\ \A k \in 1..Len(ctxs) : k # ctx =>
                 ctxs'[k].positionalArgs = ctxs[k].positionalArgs]_vars

\* `--` was classified at index 2 or later with tokens after it, and the
\* current scope's positionals end with `--` and those tokens
C39_Witness ==
    /\ pc = "parsed" /\ err = NoErr /\ ctx # 0
    /\ FirstDashDash >= 2
    /\ i = FirstDashDash + 1
    /\ Len(args) > FirstDashDash
    /\ LET pos  == ctxs[ctx].positionalArgs
           rest == SubSeq(args, FirstDashDash, Len(args))
       IN  /\ Len(pos) >= Len(rest)
           /\ SubSeq(pos, Len(pos) - Len(rest) + 1, Len(pos)) = rest
           /\ pos[Len(pos) - Len(rest) + 1] = tDashDash

-----------------------------------------------------------------------------
(* C37 *)

\* a pass of the loop of Write is taken
PassTaken == call.active /\ call'.active /\ call' # call

\* C37: Write terminates, whatever the text and the margins: no pass of its
\* loop leaves the loop where it found it. The branch a pass takes depends
\* on p, N, the cursor and the two margins only, and the margins do not
\* change inside the loop: a pass that changes neither N nor the cursor is
\* followed by the same pass for ever, never by one that consumes input.
C37_WriteTerminates ==
    [][PassTaken => call'.N > call.N \/ hp'.cursor # hp.cursor]_vars

-----------------------------------------------------------------------------
(* C38 *)

\* the bytes of s at the positions of K, in the order of s
Pick(s, K) ==
    LET Kin == {k \in K : k \in 1..Len(s)}
    IN  [j \in 1..Cardinality(Kin) |->
            s[CHOOSE k \in Kin : Cardinality({m \in Kin : m <= k}) = j]]

\* what the call has appended to buf, without the indentation it padded
\* and the newlines it inserted
OwnOutput == Pick(call.out, {k \in 1..Len(call.out) : ~call.ins[k]})

\* the positions of p the trimming loop stepped over
Dropped == {g.pos : g \in call.gone}

\* s without its spaces
NonSpace(s) == SelectSeq(s, LAMBDA c : c # " ")

\* C38: Write loses no text. At every moment of a call the output it has
\* appended, indentation and inserted newlines removed, is the consumed
\* input p[:N] without the bytes it dropped, so it holds every non-space
\* byte of p[:N] once and in order; a dropped byte is a space that followed
\* padded indentation at once; and a call returns with N = len(p).
C38_WriteLosesNoText ==
    /\ \A g \in call.gone :
           /\ call.p[g.pos] = " "
           /\ g.at \in 1..Len(call.out)
           /\ call.ins[g.at]
           /\ call.out[g.at] = " "
    /\ OwnOutput = Pick(call.p, (1..call.N) \ Dropped)
    /\ NonSpace(OwnOutput) = NonSpace(SubSeq(call.p, 1, call.N))
    /\ call.N <= Len(call.p)
    /\ (~call.active /\ wrote # NoWrite) =>
           /\ call.N = Len(call.p)
           /\ wrote.p = call.p
           /\ call.out = SubSeq(hp.buf, Len(hp.buf) - Len(call.out) + 1,
                                Len(hp.buf))

\* a call has returned that wrapped a text of letters, spaces and a newline:
\* it padded indentation, inserted a newline and dropped a space
C38_Witness ==
    /\ ~call.active /\ wrote # NoWrite
    /\ Len(call.p) = MaxText
    /\ Dropped # {}
    /\ \E k \in 1..Len(call.out) : call.ins[k] /\ call.out[k] = NewLine
    /\ \E k \in 1..Len(call.out) : ~call.ins[k] /\ call.out[k] = NewLine
    /\ \E k \in 1..Len(call.out) : ~call.ins[k] /\ call.out[k] = "a"

====
